---------------------------- MODULE Spec2Model ----------------------------
(***************************************************************************)
(* Clinical Risk Fusion and Validity Detection engine of neuroverse        *)
(* (app/services/fusion_service.py), as a state machine.                   *)
(*                                                                         *)
(* Number representation.  The engine computes with floats; the model      *)
(* computes with exact fixed-point and rational numbers:                   *)
(*   - every numeric feature value v is held as the integer 100*v          *)
(*     (0.97 is 97, a tapping rate of 1.5 is 150, 800 ms is 80000), and    *)
(*     every literal cutoff compared to a feature is scaled the same way;  *)
(*   - the samples of the reaction_times sequence are held in units of     *)
(*     10 ms (150 ms is 15);                                               *)
(*   - intermediate risks and scores are rationals <<num, den>>;           *)
(*   - a value returned through round(x, 2) is held in hundredths          *)
(*     (48.23 is 4823), a confidence in hundredths (0.7 is 70).            *)
(* A clinical note built with an f-string is the tuple <<text, number>>    *)
(* and a fixed note the tuple <<text>>.                                    *)
(***************************************************************************)
EXTENDS Integers, Sequences, FiniteSets, TLC

VARIABLES
    pending,           \* the caller's queue of assessment requests <<category, features>>
    pc,                \* the caller's position: "idle" or "assessed"
    category,          \* category argument of the last calculate_risk_scores call
    features,          \* FeatureSet argument of the last calculate_risk_scores call
    indicators,        \* the ValidityIndicators object of the last assess_validity call
    results,           \* what the last calculate_risk_scores call returned or raised
    category_results,  \* the caller's ordered mapping category -> CategoryResult
    composite,         \* return value of the last calculate_composite call
    snapshot,          \* an earlier call the caller kept: [category, features, results]
    test,              \* the row of one Test in the tests table
    test_results,      \* the TestResult rows of that test, in insertion order
    response           \* the last TestService call on that test and how it ended

vars == <<pending, pc, category, features, indicators, results,
          category_results, composite, snapshot, test, test_results, response>>

fusion_vars == <<pending, pc, category, features, indicators, results,
                 category_results, composite, snapshot>>

test_vars == <<test, test_results, response>>

----------------------------------------------------------------------------
(* Arithmetic helpers *)

Max(a, b) == IF a >= b THEN a ELSE b

Min(a, b) == IF a <= b THEN a ELSE b

\* round(n/d) to the nearest integer, ties to the even one (Python's round), d > 0
RoundHalfEven(n, d) ==
    LET fl == n \div d
        rem == n - fl * d
    IN  IF 2 * rem < d THEN fl
        ELSE IF 2 * rem > d THEN fl + 1
        ELSE IF fl % 2 = 0 THEN fl ELSE fl + 1

\* rationals <<num, den>>; a zero denominator stands for a ZeroDivisionError
Q(n, d) == <<n, d>>

QInt(n) == <<n, 1>>

QAdd(a, b) == <<a[1] * b[2] + b[1] * a[2], a[2] * b[2]>>

QSub(a, b) == <<a[1] * b[2] - b[1] * a[2], a[2] * b[2]>>

QMul(a, b) == <<a[1] * b[1], a[2] * b[2]>>

QLt(a, b) == a[1] * b[2] < b[1] * a[2]

QGe(a, b) == ~QLt(a, b)

QMax(a, b) == IF QGe(a, b) THEN a ELSE b

QMin(a, b) == IF QGe(a, b) THEN b ELSE a

QDefined(a) == a[2] # 0

\* round(x, 2), in hundredths
Round2(a) == RoundHalfEven(100 * a[1], a[2])

\* round(x, 1), in tenths
Round1(a) == RoundHalfEven(10 * a[1], a[2])

RECURSIVE SumSeq(_)
SumSeq(s) == IF s = <<>> THEN 0 ELSE Head(s) + SumSeq(Tail(s))

RECURSIVE SumSquares(_)
SumSquares(s) == IF s = <<>> THEN 0 ELSE Head(s) * Head(s) + SumSquares(Tail(s))

RECURSIVE CountIf(_, _)
CountIf(s, lessThan) ==
    IF s = <<>> THEN 0
    ELSE (IF Head(s) < lessThan THEN 1 ELSE 0) + CountIf(Tail(s), lessThan)

Range(s) == {s[i] : i \in 1..Len(s)}

----------------------------------------------------------------------------
(* FeatureSet: a function from the feature names present to their values *)

EmptyFeatures == [k \in {} |-> 0]

\* features.get(k, default)
Get(F, k, default) == IF k \in DOMAIN F THEN F[k] ELSE default

\* features.get(k, None) is not None
Has(F, k) == k \in DOMAIN F

\* truthiness of features.get(k): present and not zero
Truthy(F, k) == k \in DOMAIN F /\ F[k] # 0

\* the FeatureSet without key k
Without(F, k) == [j \in (DOMAIN F) \ {k} |-> F[j]]

----------------------------------------------------------------------------
(* ClinicalNorms (scaled as the features they are compared to) *)

MOCA_NORMAL == 26

MOCA_MCI_CUTOFF == 22

MOCA_DEMENTIA_CUTOFF == 17

STROOP_INTERFERENCE_NORMAL == 2000

STROOP_INTERFERENCE_IMPAIRED == 4000

NBACK_ACCURACY_NORMAL == 80

NBACK_ACCURACY_MCI == 65

NBACK_ACCURACY_IMPAIRED == 50

NBACK_DPRIME_NORMAL == 200

RECALL_IMMEDIATE_NORMAL == 70

RECALL_IMMEDIATE_MCI == 50

RECALL_DELAYED_NORMAL == 70

RECALL_DELAYED_MCI == 40

RECALL_RECOGNITION_NORMAL == 90

RECALL_RECOGNITION_FLOOR == 60

TAPPING_NORMAL_MIN == 400

TAPPING_PD_THRESHOLD == 300

GAIT_SPEED_NORMAL == 100

GAIT_SPEED_SLOW == 80

GAIT_SPEED_VERY_SLOW == 60

SWAY_NORMAL == 30

SWAY_ABNORMAL == 60

BLINK_NORMAL_MIN == 1500

BLINK_NORMAL_MAX == 2000

BLINK_PD_THRESHOLD == 1000

VOWEL_DURATION_NORMAL == 1500

VOWEL_DURATION_IMPAIRED == 1000

SPEECH_RATE_NORMAL_MIN == 12000

SPEECH_RATE_NORMAL_MAX == 18000

FLUENCY_NORMAL == 1800

FLUENCY_MCI == 1400

FLUENCY_IMPAIRED == 1000

\* in units of 10 ms
RT_MIN_VALID == 15

RT_MAX_VALID == 300

\* 0.5, as the pair numerator, denominator
RT_COEFFICIENT_OF_VARIATION_MAX == <<1, 2>>

----------------------------------------------------------------------------
(* ValidityStatus *)

VALID == "Valid"

QUESTIONABLE == "Questionable"

INVALID == "Invalid - Possible Malingering"

INVALID_POOR_EFFORT == "Invalid - Poor Effort"

INVALID_RANDOM == "Invalid - Random Responding"

ValidityStatus == {VALID, QUESTIONABLE, INVALID, INVALID_POOR_EFFORT, INVALID_RANDOM}

----------------------------------------------------------------------------
(* ValidityDetector *)

\* the dataclass defaults of ValidityIndicators
IndicatorDefaults ==
    [below_chance_tests    |-> <<>>,
     too_fast_responses    |-> 0,
     too_slow_responses    |-> 0,
     inconsistent_patterns |-> <<>>,
     improbable_scores     |-> <<>>,
     validity_status       |-> VALID,
     validity_confidence   |-> 100,
     validity_concerns     |-> <<>>]

\* indicators = ValidityIndicators(): a fresh object per assess_validity call,
\* every list field built by its default_factory
\* variant: one indicators object kept on the detector and reused by every call
SharedIndicators == indicators

\* indicators = ValidityIndicators()
ValidityIndicators == IndicatorDefaults

\* one check's effect on the indicators: append to a list and to the concerns
Flag(ind, field, entry, concern) ==
    [ind EXCEPT ![field] = Append(@, entry),
                !.validity_concerns = Append(@, concern)]

Concern(ind, concern) ==
    [ind EXCEPT !.validity_concerns = Append(@, concern)]

\* variant: the N-Back floor taken as strictly below 0.50
NbackStrictlyBelowChance(nback_acc) == nback_acc < 50

NbackBelowChance(nback_acc) == nback_acc <= 50

_check_below_chance(F, ind) ==
    LET i1 == IF Has(F, "nback_accuracy") /\ NbackBelowChance(F["nback_accuracy"])
              THEN Flag(ind, "below_chance_tests", "N-Back at/below chance level",
                        <<"N-Back accuracy at chance level - suggests poor effort or random responding",
                          F["nback_accuracy"]>>)
              ELSE ind
        i2 == IF Has(F, "recognition_accuracy") /\ F["recognition_accuracy"] < 60
              THEN Flag(i1, "below_chance_tests", "Recognition memory suspiciously low",
                        <<"Recognition accuracy below floor - highly improbable even in dementia",
                          F["recognition_accuracy"]>>)
              ELSE i1
        i3 == IF Has(F, "stroop_congruent_accuracy") /\ F["stroop_congruent_accuracy"] < 70
              THEN Flag(i2, "below_chance_tests", "Simple Stroop performance too low",
                        <<"Stroop congruent accuracy suspiciously low for easy trials",
                          F["stroop_congruent_accuracy"]>>)
              ELSE i2
    IN  i3

\* cv > RT_COEFFICIENT_OF_VARIATION_MAX for cv = stdev/mean (sample stdev), or,
\* for a mean that is not positive, cv = 0; n = len(rts) > 1
CvExceeds(rts) ==
    LET n == Len(rts)
        S == SumSeq(rts)
        SS == SumSquares(rts)
        num == RT_COEFFICIENT_OF_VARIATION_MAX[1]
        den == RT_COEFFICIENT_OF_VARIATION_MAX[2]
    IN  /\ S > 0
        /\ den * den * n * (n * SS - S * S) > num * num * (n - 1) * S * S

\* len(reaction_times) > 5: the sequence is scanned
RtScanned(rts) == Len(rts) > 5

\* len(reaction_times) > 10: the coefficient of variation is computed
CvChecked(rts) == Len(rts) > 10

\* the number formatted into the variability concern (CV to two decimals) is
\* not carried by the model's note
_check_response_times(F, ind) ==
    LET rts == Get(F, "reaction_times", <<>>)
    IN  IF rts # <<>> /\ RtScanned(rts)
        THEN LET n == Len(rts)
                 fast == ind.too_fast_responses + CountIf(rts, RT_MIN_VALID)
                 slow == ind.too_slow_responses + (n - CountIf(rts, RT_MAX_VALID + 1))
                 i0 == [ind EXCEPT !.too_fast_responses = fast,
                                   !.too_slow_responses = slow]
                 i1 == IF 5 * fast > n
                       THEN Concern(i0, <<"responses too fast (<150ms) - suggests anticipation/random", fast>>)
                       ELSE i0
                 i2 == IF 10 * slow > 3 * n
                       THEN Concern(i1, <<"responses excessively slow (>3s) - suggests deliberate slowing", slow>>)
                       ELSE i1
                 i3 == IF CvChecked(rts) /\ CvExceeds(rts)
                       THEN Concern(i2, <<"Response time variability suggests inconsistent effort">>)
                       ELSE i2
             IN  i3
        ELSE ind

\* recall_acc > recognition_acc + 0.15
\* variant: a margin of 0.30 instead of 0.15
RecallExceedsWideMargin(recall_acc, recognition_acc) ==
    recall_acc > recognition_acc + 30

RecallExceedsRecognition(recall_acc, recognition_acc) ==
    recall_acc > recognition_acc + 15

_check_consistency(F, ind) ==
    LET i1 == IF /\ Has(F, "recall_accuracy") /\ Has(F, "recognition_accuracy")
                 /\ RecallExceedsRecognition(F["recall_accuracy"], F["recognition_accuracy"])
              THEN Flag(ind, "inconsistent_patterns", "Recall > Recognition (impossible pattern)",
                        <<"Recall exceeds Recognition - neurologically impossible",
                          F["recall_accuracy"], F["recognition_accuracy"]>>)
              ELSE ind
        i2 == IF /\ Has(F, "stroop_congruent_accuracy") /\ Has(F, "stroop_incongruent_accuracy")
                 /\ F["stroop_incongruent_accuracy"] > F["stroop_congruent_accuracy"] + 10
              THEN Flag(i1, "inconsistent_patterns", "Incongruent Stroop > Congruent (impossible)",
                        <<"Better performance on hard trials than easy trials - inconsistent with genuine impairment">>)
              ELSE i1
        i3 == IF /\ Has(F, "simple_reaction_time") /\ Has(F, "choice_reaction_time")
                 /\ 2 * F["simple_reaction_time"] > 3 * F["choice_reaction_time"]
              THEN Flag(i2, "inconsistent_patterns", "Simple RT slower than Choice RT",
                        <<"Simple reaction time slower than complex - suggests deliberate slowing">>)
              ELSE i2
    IN  i3

_check_improbability(F, ind) ==
    LET i1 == IF /\ Has(F, "easy_items_correct") /\ Has(F, "hard_items_correct")
                 /\ F["easy_items_correct"] < 30 /\ F["hard_items_correct"] > 70
              THEN Flag(ind, "improbable_scores", "Failed easy items, passed hard items",
                        <<"Paradoxical pattern: Failed easy items while passing difficult ones">>)
              ELSE ind
        i2 == IF /\ Has(F, "cognitive_score") /\ Has(F, "motor_score")
                 /\ F["cognitive_score"] < 1000 /\ F["motor_score"] > 9500
              THEN Flag(i1, "improbable_scores", "Severe cognitive impairment with perfect motor",
                        <<"Severe cognitive deficits with intact motor function - unusual pattern">>)
              ELSE i1
        test_keys == {k \in {"stroop_accuracy", "nback_accuracy", "recall_accuracy",
                             "tapping_regularity"} : Has(F, k)}
        i3 == IF Cardinality(test_keys) >= 3 /\ \A k \in test_keys : F[k] < 30
              THEN Flag(i2, "improbable_scores", "Floor performance on all tests",
                        <<"Near-floor performance across all domains - rare in genuine impairment">>)
              ELSE i2
    IN  i3

_check_effort(F, ind) ==
    LET completion_rate == Get(F, "test_completion_rate", 100)
        response_rate == Get(F, "response_rate", 100)
        i1 == IF completion_rate < 50
              THEN Concern(ind, <<"Low test completion rate - possible poor effort", completion_rate>>)
              ELSE ind
        i2 == IF response_rate < 70
              THEN Concern(i1, <<"Low response rate - many missed/skipped trials", response_rate>>)
              ELSE i1
        i3 == IF Has(F, "practice_improvement") /\ F["practice_improvement"] < -20
              THEN Concern(i2, <<"Performance declined with practice - opposite of expected pattern">>)
              ELSE i2
    IN  i3

\* the severity weights; "effort" is defined by the code and never added
ValidityWeights ==
    [below_chance |-> 3, inconsistent |-> 3, improbable |-> 2, timing |-> 1, effort |-> 1]

\* total_score of _determine_validity
\* variant: every kind of hit weighs 1
UnweightedScore(ind) ==
    Len(ind.below_chance_tests) + Len(ind.inconsistent_patterns)
    + Len(ind.improbable_scores)
    + (IF ind.too_fast_responses > 10 \/ ind.too_slow_responses > 10 THEN 1 ELSE 0)

TotalScore(ind) ==
    Len(ind.below_chance_tests) * ValidityWeights.below_chance
    + Len(ind.inconsistent_patterns) * ValidityWeights.inconsistent
    + Len(ind.improbable_scores) * ValidityWeights.improbable
    + (IF ind.too_fast_responses > 10 \/ ind.too_slow_responses > 10
       THEN ValidityWeights.timing ELSE 0)

\* <<status, confidence>>; confidence = max(0, 1 - total_score * 0.1), in hundredths
_determine_validity(ind) ==
    LET total_score == TotalScore(ind)
        confidence == Max(0, 100 - total_score * 10)
    IN  IF total_score = 0 THEN <<VALID, 100>>
        ELSE IF total_score <= 2 THEN <<QUESTIONABLE, confidence>>
        ELSE IF ind.below_chance_tests # <<>> THEN <<INVALID, confidence>>
        ELSE IF ind.inconsistent_patterns # <<>> THEN <<INVALID, confidence>>
        ELSE IF total_score >= 5 THEN <<INVALID_POOR_EFFORT, confidence>>
        ELSE <<QUESTIONABLE, confidence>>

assess_validity(F) ==
    LET i1 == _check_below_chance(F, ValidityIndicators)
        i2 == _check_response_times(F, i1)
        i3 == _check_consistency(F, i2)
        i4 == _check_improbability(F, i3)
        i5 == _check_effort(F, i4)
        v == _determine_validity(i5)
    IN  [i5 EXCEPT !.validity_status = v[1], !.validity_confidence = v[2]]

----------------------------------------------------------------------------
(* FusionService: shared helpers *)

CognitiveStage ==
    [NORMAL |-> "Normal",
     SUBJECTIVE_DECLINE |-> "Subjective Cognitive Decline",
     MCI |-> "Mild Cognitive Impairment",
     MILD_DEMENTIA |-> "Mild Dementia",
     MODERATE_DEMENTIA |-> "Moderate Dementia",
     SEVERE_DEMENTIA |-> "Severe Dementia"]

ParkinsonStage ==
    [STAGE_0 |-> "No signs of disease",
     STAGE_1 |-> "Unilateral involvement only",
     STAGE_1_5 |-> "Unilateral and axial involvement",
     STAGE_2 |-> "Bilateral without balance impairment",
     STAGE_2_5 |-> "Mild bilateral with recovery on pull test",
     STAGE_3 |-> "Mild-moderate bilateral; postural instability",
     STAGE_4 |-> "Severe disability; able to walk/stand unassisted",
     STAGE_5 |-> "Wheelchair bound or bedridden"]

\* the Hoehn & Yahr number a ParkinsonStage value stands for, times 10
HoehnYahrNumber(stage) ==
    CASE stage = ParkinsonStage.STAGE_0 -> 0
      [] stage = ParkinsonStage.STAGE_1 -> 10
      [] stage = ParkinsonStage.STAGE_1_5 -> 15
      [] stage = ParkinsonStage.STAGE_2 -> 20
      [] stage = ParkinsonStage.STAGE_2_5 -> 25
      [] stage = ParkinsonStage.STAGE_3 -> 30
      [] stage = ParkinsonStage.STAGE_4 -> 40
      [] stage = ParkinsonStage.STAGE_5 -> 50
      [] OTHER -> -1

\* an exception raised instead of a return value
Raise(name) == [exception |-> name]

Raised(r) == "exception" \in DOMAIN r

\* risk is a rational
_get_severity(risk) ==
    IF QLt(risk, QInt(20)) THEN "low"
    ELSE IF QLt(risk, QInt(40)) THEN "mild"
    ELSE IF QLt(risk, QInt(60)) THEN "moderate"
    ELSE IF QLt(risk, QInt(80)) THEN "high"
    ELSE "severe"

_get_stage_from_risk(risk) ==
    IF QLt(risk, QInt(15)) THEN "Normal"
    ELSE IF QLt(risk, QInt(30)) THEN "Minimal"
    ELSE IF QLt(risk, QInt(50)) THEN "Mild"
    ELSE IF QLt(risk, QInt(70)) THEN "Moderate"
    ELSE "Severe"

_get_ad_stage_from_risk(risk) ==
    IF QLt(risk, QInt(10)) THEN CognitiveStage.NORMAL
    ELSE IF QLt(risk, QInt(25)) THEN CognitiveStage.SUBJECTIVE_DECLINE
    ELSE IF QLt(risk, QInt(40)) THEN CognitiveStage.MCI
    ELSE IF QLt(risk, QInt(60)) THEN CognitiveStage.MILD_DEMENTIA
    ELSE IF QLt(risk, QInt(80)) THEN CognitiveStage.MODERATE_DEMENTIA
    ELSE CognitiveStage.SEVERE_DEMENTIA

_get_pd_stage_from_risk(risk) ==
    IF QLt(risk, QInt(10)) THEN ParkinsonStage.STAGE_0
    ELSE IF QLt(risk, QInt(25)) THEN ParkinsonStage.STAGE_1
    ELSE IF QLt(risk, QInt(40)) THEN ParkinsonStage.STAGE_2
    ELSE IF QLt(risk, QInt(60)) THEN ParkinsonStage.STAGE_3
    ELSE IF QLt(risk, QInt(80)) THEN ParkinsonStage.STAGE_4
    ELSE ParkinsonStage.STAGE_5

\* sum(updrs_scores.values())
RECURSIVE SumScores(_)
SumScores(scores) ==
    IF DOMAIN scores = {} THEN 0
    ELSE LET k == CHOOSE j \in DOMAIN scores : TRUE
         IN  scores[k] + SumScores([j \in (DOMAIN scores) \ {k} |-> scores[j]])

NoScores == [k \in {} |-> 0]

_calculate_hoehn_yahr(updrs_scores) ==
    LET total == SumScores(updrs_scores)
        postural == Get(updrs_scores, "postural_stability", 0)
    IN  IF total = 0 THEN ParkinsonStage.STAGE_0
        ELSE IF total <= 4 /\ postural <= 1 THEN ParkinsonStage.STAGE_1
        ELSE IF total <= 8 /\ postural <= 1 THEN ParkinsonStage.STAGE_2
        ELSE IF postural >= 2 THEN ParkinsonStage.STAGE_3
        ELSE IF postural >= 3 THEN ParkinsonStage.STAGE_4
        ELSE ParkinsonStage.STAGE_2

\* clinical_notes if clinical_notes else [default]
NotesOr(clinical_notes, default) ==
    IF clinical_notes # <<>> THEN clinical_notes ELSE <<default>>

----------------------------------------------------------------------------
(* FusionService._assess_cognitive *)

DomainNames ==
    <<"attention_concentration", "executive_function", "memory_immediate",
      "memory_delayed", "working_memory", "processing_speed", "language">>

\* the "max" of every domain
DomainMax ==
    [attention_concentration |-> 6, executive_function |-> 5, memory_immediate |-> 5,
     memory_delayed |-> 5, working_memory |-> 4, processing_speed |-> 3, language |-> 3]

NoPoints == [d \in Range(DomainNames) |-> 0]

\* processing-speed points of the Stroop sub-test, stroop_rt = features.get("stroop_mean_rt", 0)
StroopSpeedPoints(stroop_rt) ==
    IF stroop_rt > 0 /\ stroop_rt < 80000 THEN 2
    ELSE IF stroop_rt < 120000 THEN 1
    ELSE 0

\* the points the Stroop sub-test adds to each domain
StroopPoints(F) ==
    LET stroop_accuracy == Get(F, "stroop_accuracy", 0)
        stroop_interference == Get(F, "stroop_interference", 10000)
        stroop_rt == Get(F, "stroop_mean_rt", 0)
    IN  IF stroop_accuracy > 0
        THEN [NoPoints EXCEPT
                !.attention_concentration =
                    IF stroop_accuracy >= 95 THEN 3
                    ELSE IF stroop_accuracy >= 85 THEN 2
                    ELSE IF stroop_accuracy >= 70 THEN 1
                    ELSE 0,
                !.executive_function =
                    IF stroop_interference <= STROOP_INTERFERENCE_NORMAL THEN 3
                    ELSE IF stroop_interference <= 3000 THEN 2
                    ELSE IF stroop_interference <= STROOP_INTERFERENCE_IMPAIRED THEN 1
                    ELSE 0,
                !.processing_speed = StroopSpeedPoints(stroop_rt)]
        ELSE NoPoints

StroopNotes(F) ==
    LET stroop_accuracy == Get(F, "stroop_accuracy", 0)
        stroop_interference == Get(F, "stroop_interference", 10000)
    IN  IF stroop_accuracy > 0
        THEN (IF stroop_accuracy < 70
              THEN << <<"Low Stroop accuracy suggests attention deficits", stroop_accuracy>> >>
              ELSE <<>>)
             \o (IF stroop_interference > STROOP_INTERFERENCE_IMPAIRED
                 THEN << <<"Elevated Stroop interference indicates executive dysfunction",
                           RoundHalfEven(stroop_interference, 100)>> >>
                 ELSE <<>>)
        ELSE <<>>

\* the points the N-Back sub-test adds to each domain
NbackPoints(F) ==
    LET nback_accuracy == Get(F, "nback_accuracy", 0)
        nback_dprime == Get(F, "nback_dprime", 0)
        bonus == IF nback_dprime >= NBACK_DPRIME_NORMAL THEN 1 ELSE 0
    IN  IF nback_accuracy > 0
        THEN [NoPoints EXCEPT
                !.working_memory =
                    (IF nback_accuracy >= NBACK_ACCURACY_NORMAL THEN 3
                     ELSE IF nback_accuracy >= NBACK_ACCURACY_MCI THEN 2
                     ELSE IF nback_accuracy >= NBACK_ACCURACY_IMPAIRED THEN 1
                     ELSE 0) + bonus,
                !.attention_concentration =
                    IF nback_accuracy >= NBACK_ACCURACY_NORMAL THEN 2
                    ELSE IF nback_accuracy >= NBACK_ACCURACY_MCI THEN 1
                    ELSE 0]
        ELSE NoPoints

NbackNotes(F) ==
    LET nback_accuracy == Get(F, "nback_accuracy", 0)
    IN  IF nback_accuracy > 0 /\ nback_accuracy < NBACK_ACCURACY_MCI
        THEN IF nback_accuracy >= NBACK_ACCURACY_IMPAIRED
             THEN << <<"Working memory below normal", nback_accuracy>> >>
             ELSE << <<"Significant working memory impairment", nback_accuracy>> >>
        ELSE <<>>

\* the points the word-recall sub-test adds to each domain
RecallPoints(F) ==
    LET recall_accuracy == Get(F, "recall_accuracy", 0)
        delayed_recall == Get(F, "delayed_recall_accuracy", 0)
        recognition_accuracy == Get(F, "recognition_accuracy", 0)
    IN  [NoPoints EXCEPT
            !.memory_immediate =
                (IF recall_accuracy > 0
                 THEN IF recall_accuracy >= RECALL_IMMEDIATE_NORMAL THEN 5
                      ELSE IF recall_accuracy >= 60 THEN 4
                      ELSE IF recall_accuracy >= RECALL_IMMEDIATE_MCI THEN 2
                      ELSE 1
                 ELSE 0)
                + (IF recognition_accuracy > 0 /\ recognition_accuracy >= RECALL_RECOGNITION_NORMAL
                   THEN 1 ELSE 0),
            !.memory_delayed =
                IF delayed_recall > 0
                THEN IF delayed_recall >= RECALL_DELAYED_NORMAL THEN 5
                     ELSE IF delayed_recall >= 55 THEN 3
                     ELSE IF delayed_recall >= RECALL_DELAYED_MCI THEN 1
                     ELSE 0
                ELSE 0]

RecallNotes(F) ==
    LET recall_accuracy == Get(F, "recall_accuracy", 0)
        delayed_recall == Get(F, "delayed_recall_accuracy", 0)
        recognition_accuracy == Get(F, "recognition_accuracy", 0)
    IN  (IF recall_accuracy > 0 /\ recall_accuracy < 60
         THEN IF recall_accuracy >= RECALL_IMMEDIATE_MCI
              THEN << <<"Immediate recall in MCI range">> >>
              ELSE << <<"Poor immediate recall - memory encoding concern", recall_accuracy>> >>
         ELSE <<>>)
        \o (IF delayed_recall > 0 /\ delayed_recall < 55
            THEN IF delayed_recall >= RECALL_DELAYED_MCI
                 THEN << <<"Delayed recall impaired - hallmark early AD sign">> >>
                 ELSE << <<"Severely impaired delayed recall - significant memory consolidation deficit",
                           delayed_recall>> >>
            ELSE <<>>)
        \o (IF /\ recognition_accuracy > 0
               /\ recognition_accuracy < RECALL_RECOGNITION_NORMAL
               /\ recognition_accuracy < RECALL_RECOGNITION_FLOOR
            THEN << <<"Recognition memory unusually low - verify data validity">> >>
            ELSE <<>>)

\* domains[d]["score"] after the three sub-tests
DomainScores(F) ==
    [d \in Range(DomainNames) |-> StroopPoints(F)[d] + NbackPoints(F)[d] + RecallPoints(F)[d]]

RECURSIVE SumOver(_, _)
SumOver(f, names) ==
    IF names = <<>> THEN 0 ELSE f[Head(names)] + SumOver(f, Tail(names))

\* total_possible = sum(d["max"] for d in domains.values())
TotalPossible == SumOver(DomainMax, DomainNames)

\* moca_equivalent, a rational on the 0-30 scale
MocaEquivalent(total_earned, total_possible) ==
    IF total_possible > 0 THEN Q(total_earned * 30, total_possible) ELSE QInt(15)

\* the staging ladder: <<stage, ad_risk before clamping>>
CognitiveStaging(moca) ==
    IF QGe(moca, QInt(MOCA_NORMAL))
    THEN <<CognitiveStage.NORMAL,
           QMax(QInt(0), QMul(QSub(QInt(30), moca), Q(3, 2)))>>
    ELSE IF QGe(moca, QInt(MOCA_MCI_CUTOFF))
    THEN <<CognitiveStage.MCI, QAdd(QInt(15), QMul(QSub(QInt(26), moca), QInt(5)))>>
    ELSE IF QGe(moca, QInt(MOCA_DEMENTIA_CUTOFF))
    THEN <<CognitiveStage.MILD_DEMENTIA, QAdd(QInt(35), QMul(QSub(QInt(22), moca), QInt(5)))>>
    ELSE IF QGe(moca, QInt(10))
    THEN <<CognitiveStage.MODERATE_DEMENTIA, QAdd(QInt(60), QMul(QSub(QInt(17), moca), QInt(3)))>>
    ELSE <<CognitiveStage.SEVERE_DEMENTIA, QAdd(QInt(80), QMul(QSub(QInt(10), moca), QInt(2)))>>

\* ad_risk = min(100, max(0, ad_risk))
ClampRisk(risk) == QMin(QInt(100), QMax(QInt(0), risk))

_interpret_cognitive(moca) ==
    IF QGe(moca, QInt(26)) THEN "Cognitive function within normal limits."
    ELSE IF QGe(moca, QInt(22)) THEN "Performance suggests possible Mild Cognitive Impairment (MCI)."
    ELSE IF QGe(moca, QInt(17)) THEN "Performance indicates likely cognitive impairment."
    ELSE "Significant cognitive impairment detected."

_get_cognitive_recommendations(stage) ==
    IF stage = CognitiveStage.NORMAL
    THEN <<"Continue regular cognitive health monitoring", "Maintain physical and mental activities">>
    ELSE IF stage = CognitiveStage.MCI
    THEN <<"Schedule comprehensive neuropsychological evaluation",
           "Consider lifestyle modifications (exercise, diet, sleep)",
           "Monitor for progression - repeat testing in 6-12 months">>
    ELSE <<"Urgent consultation with neurologist recommended",
           "Comprehensive dementia workup advised",
           "Consider caregiver support resources">>

_assess_cognitive(F) ==
    LET domains == DomainScores(F)
        clinical_notes == StroopNotes(F) \o NbackNotes(F) \o RecallNotes(F)
        total_earned == SumOver(domains, DomainNames)
        total_possible == TotalPossible
        moca_equivalent == MocaEquivalent(total_earned, total_possible)
        adas_equivalent == QSub(QInt(70), QMul(moca_equivalent, Q(70, 30)))
        staging == CognitiveStaging(moca_equivalent)
        stage == staging[1]
        ad_risk == ClampRisk(staging[2])
        pd_risk == QMul(ad_risk, Q(1, 4))
        category_score == QMul(moca_equivalent, Q(100, 30))
    IN  IF ~QDefined(moca_equivalent) THEN Raise("ZeroDivisionError")
        ELSE
        [ad_risk |-> Round2(ad_risk),
         pd_risk |-> Round2(pd_risk),
         category_score |-> Round2(category_score),
         stage |-> stage,
         severity |-> _get_severity(ad_risk),
         ad_stage |-> stage,
         pd_stage |-> _get_pd_stage_from_risk(pd_risk),
         moca_equivalent |-> Round1(moca_equivalent),
         adas_cog_equivalent |-> Round1(adas_equivalent),
         domain_scores |-> [d \in Range(DomainNames) |-> <<domains[d], DomainMax[d]>>],
         domain_percentages |->
             [d \in Range(DomainNames) |->
                 IF DomainMax[d] > 0 THEN Round1(Q(domains[d] * 100, DomainMax[d])) ELSE 0],
         interpretation |-> _interpret_cognitive(moca_equivalent),
         clinical_notes |-> NotesOr(clinical_notes, <<"Cognitive performance within normal limits">>),
         recommendations |-> _get_cognitive_recommendations(stage)]

----------------------------------------------------------------------------
(* FusionService._assess_speech *)

\* max_ad = 10
SpeechMaxAd == 10

\* max_pd = 10
SpeechMaxPd == 10

SpeechAdScore(F) ==
    LET story_accuracy == Get(F, "story_recall_accuracy", 0)
        speech_rate == Get(F, "speech_rate", 0)
        word_count == Get(F, "fluency_word_count", 0)
    IN  (IF story_accuracy > 0
         THEN IF story_accuracy >= 80 THEN 5
              ELSE IF story_accuracy >= 60 THEN 3
              ELSE IF story_accuracy >= 40 THEN 1
              ELSE 0
         ELSE 0)
        + (IF /\ speech_rate > 0
              /\ SPEECH_RATE_NORMAL_MIN <= speech_rate
              /\ speech_rate <= SPEECH_RATE_NORMAL_MAX
           THEN 2 ELSE 0)
        + (IF word_count > 0
           THEN IF word_count >= FLUENCY_NORMAL THEN 3
                ELSE IF word_count >= FLUENCY_MCI THEN 2
                ELSE IF word_count >= FLUENCY_IMPAIRED THEN 1
                ELSE 0
           ELSE 0)

SpeechPdScore(F) ==
    LET vowel_duration == Get(F, "vowel_duration", 0)
        speech_rate == Get(F, "speech_rate", 0)
    IN  (IF vowel_duration > 0
         THEN IF vowel_duration >= VOWEL_DURATION_NORMAL THEN 5
              ELSE IF vowel_duration >= VOWEL_DURATION_IMPAIRED THEN 3
              ELSE IF vowel_duration >= 500 THEN 1
              ELSE 0
         ELSE 0)
        + (IF /\ speech_rate > 0
              /\ SPEECH_RATE_NORMAL_MIN <= speech_rate
              /\ speech_rate <= SPEECH_RATE_NORMAL_MAX
           THEN 2 ELSE 0)

SpeechNotes(F) ==
    LET story_accuracy == Get(F, "story_recall_accuracy", 0)
        vowel_duration == Get(F, "vowel_duration", 0)
        speech_rate == Get(F, "speech_rate", 0)
        word_count == Get(F, "fluency_word_count", 0)
    IN  (IF story_accuracy > 0 /\ story_accuracy < 40
         THEN << <<"Poor story recall - verbal memory concern">> >> ELSE <<>>)
        \o (IF vowel_duration > 0 /\ vowel_duration < 500
            THEN << <<"Reduced phonation time - respiratory/laryngeal concern">> >> ELSE <<>>)
        \o (IF /\ speech_rate > 0
               /\ ~(SPEECH_RATE_NORMAL_MIN <= speech_rate /\ speech_rate <= SPEECH_RATE_NORMAL_MAX)
               /\ speech_rate < 10000
            THEN << <<"Slow speech rate - possible motor speech involvement">> >> ELSE <<>>)
        \o (IF word_count > 0 /\ word_count < FLUENCY_IMPAIRED
            THEN << <<"Reduced verbal fluency - semantic memory concern">> >> ELSE <<>>)

_assess_speech(F) ==
    LET ad_score == SpeechAdScore(F)
        pd_score == SpeechPdScore(F)
        max_ad == SpeechMaxAd
        max_pd == SpeechMaxPd
        category_score == QMul(Q(ad_score + pd_score, max_ad + max_pd), QInt(100))
        ad_risk == QMul(QSub(QInt(1), Q(ad_score, max_ad)), QInt(25))
        pd_risk == QMul(QSub(QInt(1), Q(pd_score, max_pd)), QInt(25))
    IN  IF ~(QDefined(category_score) /\ QDefined(ad_risk) /\ QDefined(pd_risk))
        THEN Raise("ZeroDivisionError")
        ELSE
        [ad_risk |-> Round2(ad_risk),
         pd_risk |-> Round2(pd_risk),
         category_score |-> Round2(category_score),
         stage |-> _get_stage_from_risk(QMax(ad_risk, pd_risk)),
         severity |-> _get_severity(QMax(ad_risk, pd_risk)),
         ad_stage |-> _get_ad_stage_from_risk(ad_risk),
         pd_stage |-> _get_pd_stage_from_risk(pd_risk),
         clinical_notes |-> NotesOr(SpeechNotes(F), <<"Speech parameters within normal limits">>)]

----------------------------------------------------------------------------
(* FusionService._assess_motor, _assess_gait, _assess_facial *)

\* max_score = len(updrs_scores) * 4 if updrs_scores else 8
MaxScore(updrs_scores) ==
    IF DOMAIN updrs_scores # {} THEN Cardinality(DOMAIN updrs_scores) * 4 ELSE 8

\* health = ((max_score - total) / max_score) * 100 if max_score > 0 else 50
HealthScore(total, max_score) ==
    IF max_score > 0 THEN QMul(Q(max_score - total, max_score), QInt(100)) ELSE QInt(50)

\* pd_risk = (total / max_score) * ceiling if max_score > 0 else 0
\* variant: the total is scaled by the ceiling without dividing by max_score
UnscaledPdRisk(total, max_score, ceiling) == QInt(total * ceiling)

PdRiskOf(total, max_score, ceiling) ==
    IF max_score > 0 THEN QMul(Q(total, max_score), QInt(ceiling)) ELSE QInt(0)

MotorScores(F) ==
    LET tapping_rate == Get(F, "tapping_rate", 0)
        tapping_regularity == Get(F, "tapping_regularity", 0)
        tapping_fatigue == Get(F, "tapping_fatigue", 0)
        spiral_tremor == Get(F, "spiral_tremor", 0)
        brady == IF tapping_rate > 0
                 THEN "bradykinesia" :>
                      (IF tapping_rate >= TAPPING_NORMAL_MIN
                       THEN IF tapping_regularity >= 90 /\ tapping_fatigue <= 10 THEN 0
                            ELSE IF tapping_regularity >= 80 THEN 1
                            ELSE 2
                       ELSE IF tapping_rate >= TAPPING_PD_THRESHOLD
                       THEN IF tapping_regularity >= 70 THEN 2 ELSE 3
                       ELSE IF tapping_rate >= 200 THEN 3 ELSE 4)
                 ELSE NoScores
        tremor == IF Truthy(F, "spiral_duration")
                  THEN "tremor" :>
                       (IF spiral_tremor <= 10 THEN 0
                        ELSE IF spiral_tremor <= 25 THEN 1
                        ELSE IF spiral_tremor <= 50 THEN 2
                        ELSE IF spiral_tremor <= 75 THEN 3
                        ELSE 4)
                  ELSE NoScores
    IN  brady @@ tremor

MotorNotes(F) ==
    LET tapping_rate == Get(F, "tapping_rate", 0)
        spiral_tremor == Get(F, "spiral_tremor", 0)
        tremor_frequency == Get(F, "tremor_frequency", 0)
    IN  (IF tapping_rate > 0 /\ tapping_rate < TAPPING_NORMAL_MIN
         THEN IF tapping_rate >= TAPPING_PD_THRESHOLD
              THEN << <<"Reduced tapping rate - bradykinesia indicator">> >>
              ELSE << <<"Significant bradykinesia detected">> >>
         ELSE <<>>)
        \o (IF Truthy(F, "spiral_duration")
            THEN (IF spiral_tremor > 50
                  THEN IF spiral_tremor <= 75
                       THEN << <<"Moderate tremor detected in drawing">> >>
                       ELSE << <<"Severe tremor present">> >>
                  ELSE <<>>)
                 \o (IF 400 <= tremor_frequency /\ tremor_frequency <= 600
                     THEN << <<"Tremor frequency in Parkinsonian range (4-6 Hz)",
                               RoundHalfEven(tremor_frequency, 10)>> >>
                     ELSE <<>>)
            ELSE <<>>)

_assess_motor(F) ==
    LET updrs_scores == MotorScores(F)
        total == SumScores(updrs_scores)
        max_score == MaxScore(updrs_scores)
        motor_health == HealthScore(total, max_score)
        pd_risk == PdRiskOf(total, max_score, 60)
        ad_risk == QMul(pd_risk, Q(1, 10))
        hy_stage == _calculate_hoehn_yahr(updrs_scores)
    IN  IF ~(QDefined(motor_health) /\ QDefined(pd_risk)) THEN Raise("ZeroDivisionError")
        ELSE
        [ad_risk |-> Round2(ad_risk),
         pd_risk |-> Round2(pd_risk),
         category_score |-> Round2(motor_health),
         stage |-> hy_stage,
         severity |-> _get_severity(pd_risk),
         ad_stage |-> _get_ad_stage_from_risk(ad_risk),
         pd_stage |-> hy_stage,
         hoehn_yahr |-> hy_stage,
         updrs_subscores |-> updrs_scores,
         updrs_motor_total |-> total,
         clinical_notes |-> NotesOr(MotorNotes(F), <<"Motor function within normal limits">>)]

GaitScores(F) ==
    LET gait_speed == Get(F, "gait_speed", 0)
        step_regularity == Get(F, "step_regularity", 0)
        balance_sway == Get(F, "balance_sway", 0)
        balance_stability == Get(F, "balance_stability", 0)
        gait == IF Truthy(F, "steps")
                THEN "gait" :>
                     (IF gait_speed >= GAIT_SPEED_NORMAL /\ step_regularity >= 90 THEN 0
                      ELSE IF gait_speed >= GAIT_SPEED_SLOW THEN 1
                      ELSE IF gait_speed >= GAIT_SPEED_VERY_SLOW THEN 2
                      ELSE 3)
                ELSE NoScores
        postural == IF Truthy(F, "balance_duration")
                    THEN "postural_stability" :>
                         (IF balance_sway <= SWAY_NORMAL /\ balance_stability >= 90 THEN 0
                          ELSE IF balance_sway <= 40 THEN 1
                          ELSE IF balance_sway <= SWAY_ABNORMAL THEN 2
                          ELSE 3)
                    ELSE NoScores
    IN  gait @@ postural

GaitNotes(F) ==
    LET gait_speed == Get(F, "gait_speed", 0)
        scores == GaitScores(F)
    IN  (IF Get(scores, "gait", 0) = 2
         THEN << <<"Slow gait speed", gait_speed>> >>
         ELSE IF Get(scores, "gait", 0) = 3
         THEN << <<"Significantly reduced gait speed", gait_speed>> >>
         ELSE <<>>)
        \o (IF Get(scores, "postural_stability", 0) = 3
            THEN << <<"Postural instability - fall risk">> >> ELSE <<>>)

_assess_gait(F) ==
    LET updrs_scores == GaitScores(F)
        total == SumScores(updrs_scores)
        max_score == MaxScore(updrs_scores)
        gait_health == HealthScore(total, max_score)
        pd_risk == PdRiskOf(total, max_score, 40)
        ad_risk == QMul(pd_risk, Q(15, 100))
        hy_stage == _calculate_hoehn_yahr(updrs_scores)
    IN  IF ~(QDefined(gait_health) /\ QDefined(pd_risk)) THEN Raise("ZeroDivisionError")
        ELSE
        [ad_risk |-> Round2(ad_risk),
         pd_risk |-> Round2(pd_risk),
         category_score |-> Round2(gait_health),
         stage |-> hy_stage,
         severity |-> _get_severity(pd_risk),
         ad_stage |-> _get_ad_stage_from_risk(ad_risk),
         pd_stage |-> hy_stage,
         updrs_subscores |-> updrs_scores,
         clinical_notes |-> NotesOr(GaitNotes(F), <<"Gait and balance within normal limits">>)]

FacialScores(F) ==
    LET blink_rate == Get(F, "blink_rate", 0)
        smile_intensity == Get(F, "smile_intensity", 0)
        blink == IF blink_rate > 0
                 THEN "blink" :>
                      (IF BLINK_NORMAL_MIN <= blink_rate /\ blink_rate <= BLINK_NORMAL_MAX THEN 0
                       ELSE IF blink_rate >= 1200 THEN 1
                       ELSE IF blink_rate >= BLINK_PD_THRESHOLD THEN 2
                       ELSE 3)
                 ELSE NoScores
        expression == IF Truthy(F, "smile_count")
                      THEN "facial_expression" :>
                           (IF smile_intensity >= 80 THEN 0
                            ELSE IF smile_intensity >= 60 THEN 1
                            ELSE IF smile_intensity >= 40 THEN 2
                            ELSE 3)
                      ELSE NoScores
    IN  blink @@ expression

FacialNotes(F) ==
    LET scores == FacialScores(F)
    IN  (IF Get(scores, "blink", 0) = 3
         THEN << <<"Reduced blink rate - hypomimia indicator",
                   RoundHalfEven(Get(F, "blink_rate", 0), 100)>> >>
         ELSE <<>>)
        \o (IF Get(scores, "facial_expression", 0) = 3
            THEN << <<"Reduced facial expressivity - masked facies">> >> ELSE <<>>)

_assess_facial(F) ==
    LET updrs_scores == FacialScores(F)
        total == SumScores(updrs_scores)
        max_score == MaxScore(updrs_scores)
        facial_health == HealthScore(total, max_score)
        pd_risk == PdRiskOf(total, max_score, 20)
        ad_risk == QMul(pd_risk, Q(5, 100))
    IN  IF ~(QDefined(facial_health) /\ QDefined(pd_risk)) THEN Raise("ZeroDivisionError")
        ELSE
        [ad_risk |-> Round2(ad_risk),
         pd_risk |-> Round2(pd_risk),
         category_score |-> Round2(facial_health),
         stage |-> _get_stage_from_risk(pd_risk),
         severity |-> _get_severity(pd_risk),
         ad_stage |-> _get_ad_stage_from_risk(ad_risk),
         pd_stage |-> _get_pd_stage_from_risk(pd_risk),
         updrs_subscores |-> updrs_scores,
         clinical_notes |-> NotesOr(FacialNotes(F), <<"Facial expression within normal range">>)]

\* variant: a default assessment that carries no clinical_notes list
BareAssessment ==
    [ad_risk |-> 0,
     pd_risk |-> 0,
     category_score |-> 5000,
     stage |-> "Unknown",
     severity |-> "low",
     ad_stage |-> CognitiveStage.NORMAL,
     pd_stage |-> ParkinsonStage.STAGE_0]

_default_assessment ==
    [ad_risk |-> 0,
     pd_risk |-> 0,
     category_score |-> 5000,
     stage |-> "Unknown",
     severity |-> "low",
     ad_stage |-> CognitiveStage.NORMAL,
     pd_stage |-> ParkinsonStage.STAGE_0,
     clinical_notes |-> << <<"Insufficient data for assessment">> >>]

----------------------------------------------------------------------------
(* FusionService.calculate_risk_scores *)

Categories == {"cognitive", "speech", "motor", "gait", "facial"}

\* STEP 2: the assessor of the category
AssessorResult(cat, F) ==
    IF cat = "cognitive" THEN _assess_cognitive(F)
    ELSE IF cat = "speech" THEN _assess_speech(F)
    ELSE IF cat = "motor" THEN _assess_motor(F)
    ELSE IF cat = "gait" THEN _assess_gait(F)
    ELSE IF cat = "facial" THEN _assess_facial(F)
    ELSE _default_assessment

\* STEP 3: results["validity"]
ValiditySummary(validity) ==
    [status |-> validity.validity_status,
     confidence |-> validity.validity_confidence,
     concerns |-> validity.validity_concerns,
     is_valid |-> (validity.validity_status = VALID)]

ValidityFlagNote(status) == <<"VALIDITY CONCERN", status>>

InterpretationCaveat ==
    "Results should be interpreted with caution due to validity concerns. Consider re-testing under standardized conditions."

\* variant: a verdict that is not Valid withholds the risks and the notes
SuppressingCaveat(r, validity) ==
    IF validity.validity_status # VALID
    THEN [interpretation_caveat |-> InterpretationCaveat]
         @@ [r EXCEPT !.ad_risk = 0, !.pd_risk = 0,
                      !.clinical_notes = <<ValidityFlagNote(validity.validity_status)>>]
    ELSE r

\* STEP 4: the flagged note and the caveat of a verdict that is not Valid
WithValidityCaveat(r, validity) ==
    IF validity.validity_status # VALID
    THEN IF "clinical_notes" \in DOMAIN r
         THEN [interpretation_caveat |-> InterpretationCaveat]
              @@ [r EXCEPT !.clinical_notes = <<ValidityFlagNote(validity.validity_status)>> \o @]
         ELSE Raise("KeyError")
    ELSE r

calculate_risk_scores(cat, F) ==
    LET validity == assess_validity(F)
        r == AssessorResult(cat, F)
    IN  IF Raised(r) THEN r
        ELSE WithValidityCaveat([validity |-> ValiditySummary(validity)] @@ r, validity)

----------------------------------------------------------------------------
(* CompositeFusionService *)

\* in hundredths
\* variant: speech, not cognition, carries the largest disease-A weight
SpeechLedWeights ==
    [cognitive |-> 20, speech |-> 45, gait |-> 20, motor |-> 5, facial |-> 10]

WEIGHTS_AD ==
    [cognitive |-> 45, speech |-> 20, gait |-> 20, motor |-> 5, facial |-> 10]

WEIGHTS_PD ==
    [motor |-> 35, gait |-> 25, speech |-> 15, cognitive |-> 15, facial |-> 10]

\* WEIGHTS.get(category, 0.1)
WeightOf(weights, cat) == IF cat \in DOMAIN weights THEN weights[cat] ELSE 10

\* category_results is an insertion-ordered dict: a sequence of entries
\* [category, results] with pairwise different categories
Keys(cr) == [i \in 1..Len(cr) |-> cr[i].category]

\* category_results[cat] = r
Put(cr, cat, r) ==
    IF \E i \in 1..Len(cr) : cr[i].category = cat
    THEN [i \in 1..Len(cr) |->
            IF cr[i].category = cat THEN [category |-> cat, results |-> r] ELSE cr[i]]
    ELSE Append(cr, [category |-> cat, results |-> r])

\* not validity.get("is_valid", True), for validity = results.get("validity", {})
\* variant: only an Invalid verdict counts, a Questionable one passes
OnlyInvalid(r) ==
    /\ "validity" \in DOMAIN r
    /\ r.validity.status = INVALID

NotValid(r) ==
    /\ "validity" \in DOMAIN r
    /\ "is_valid" \in DOMAIN r.validity
    /\ ~r.validity.is_valid

\* validity.get('status', 'Unknown')
StatusOf(r) ==
    IF "validity" \in DOMAIN r /\ "status" \in DOMAIN r.validity
    THEN r.validity.status ELSE "Unknown"

RECURSIVE ValidityConcerns(_)
ValidityConcerns(cr) ==
    IF cr = <<>> THEN <<>>
    ELSE (IF NotValid(Head(cr).results)
          THEN << <<Head(cr).category, StatusOf(Head(cr).results)>> >>
          ELSE <<>>)
         \o ValidityConcerns(Tail(cr))

\* sum of results.get(field, 0) * weight over the entries, in 1/10000 of a point
RECURSIVE WeightedSum(_, _, _)
WeightedSum(cr, field, weights) ==
    IF cr = <<>> THEN 0
    ELSE Get(Head(cr).results, field, 0) * WeightOf(weights, Head(cr).category)
         + WeightedSum(Tail(cr), field, weights)

\* variant: every category of the table weighs in, supplied or not
FullWeight(cr, weights) ==
    weights.cognitive + weights.speech + weights.motor + weights.gait + weights.facial

RECURSIVE TotalWeight(_, _)
TotalWeight(cr, weights) ==
    IF cr = <<>> THEN 0
    ELSE WeightOf(weights, Head(cr).category) + TotalWeight(Tail(cr), weights)

\* composite = weighted / total_weight if total_weight > 0 else 0, in hundredths
\* variant: the weighted sum taken as it is, as if the weights present summed to 1.00
Unnormalized(weighted, total_weight) == Q(weighted, 100)

\* variant: with no weight at all the composite takes the neutral 50 of an
\* assessor without data
NeutralWhenEmpty(weighted, total_weight) ==
    IF total_weight > 0 THEN Q(weighted, total_weight) ELSE QInt(5000)

Normalize(weighted, total_weight) ==
    IF total_weight > 0 THEN Q(weighted, total_weight) ELSE QInt(0)

\* ad > pd + 10, pd > ad + 10: the composites are in hundredths
PrimaryConcern(composite_ad, composite_pd) ==
    IF QLt(QAdd(composite_pd, QInt(1000)), composite_ad) THEN "Alzheimer's Disease"
    ELSE IF QLt(QAdd(composite_ad, QInt(1000)), composite_pd) THEN "Parkinson's Disease"
    ELSE "Mixed/Undetermined"

_get_recommendation(ad, pd, validity_concerns) ==
    IF validity_concerns # <<>>
    THEN "Results may be unreliable due to validity concerns. Consider re-testing under standardized conditions."
    ELSE LET max_risk == QMax(ad, pd)
         IN  IF QLt(max_risk, QInt(1500))
             THEN "Results within normal limits. Continue regular health monitoring."
             ELSE IF QLt(max_risk, QInt(3000))
             THEN "Minor deviations noted. Consider follow-up assessment in 6-12 months."
             ELSE IF QLt(max_risk, QInt(5000))
             THEN "Some concerns identified. Consultation with a neurologist is recommended."
             ELSE IF QLt(max_risk, QInt(7000))
             THEN "Moderate risk indicators present. Clinical evaluation is strongly recommended."
             ELSE "Significant risk indicators detected. Urgent neurological evaluation is recommended."

\* round(x, 2) of a composite held in hundredths
RoundHundredths(a) == RoundHalfEven(a[1], a[2])

calculate_composite(cr) ==
    LET validity_concerns == ValidityConcerns(cr)
        composite_ad == Normalize(WeightedSum(cr, "ad_risk", WEIGHTS_AD),
                                  TotalWeight(cr, WEIGHTS_AD))
        composite_pd == Normalize(WeightedSum(cr, "pd_risk", WEIGHTS_PD),
                                  TotalWeight(cr, WEIGHTS_PD))
    IN  [composite_ad_risk |-> RoundHundredths(composite_ad),
         composite_pd_risk |-> RoundHundredths(composite_pd),
         primary_concern |-> PrimaryConcern(composite_ad, composite_pd),
         overall_risk |-> RoundHundredths(QMax(composite_ad, composite_pd)),
         categories_assessed |-> Keys(cr),
         validity_summary |-> [all_valid |-> (validity_concerns = <<>>),
                               concerns |-> validity_concerns],
         recommendation |-> _get_recommendation(composite_ad, composite_pd, validity_concerns)]

\* The composites are binary floating-point quotients. A quotient whose exact
\* value is a tie (half-way between two hundredths for round(x, 2), or equal
\* to the other side of a comparison) lands on either side of the tie,
\* depending on the rounding of the weights and of the running sums; away
\* from a tie the error is far too small to change the outcome.
QEq(a, b) == a[1] * b[2] = b[1] * a[2]

\* round(x, 2) of a non-negative composite held in hundredths
RoundOutcomes(a) ==
    IF 2 * (a[1] % a[2]) = a[2]
    THEN {a[1] \div a[2], (a[1] \div a[2]) + 1}
    ELSE {RoundHundredths(a)}

\* if composite_ad > composite_pd + 10 ... elif composite_pd > composite_ad + 10
ConcernOutcomes(composite_ad, composite_pd) ==
    {PrimaryConcern(composite_ad, composite_pd)}
    \cup (IF QEq(composite_ad, QAdd(composite_pd, QInt(1000)))
          THEN {"Alzheimer's Disease"} ELSE {})
    \cup (IF QEq(composite_pd, QAdd(composite_ad, QInt(1000)))
          THEN {"Parkinson's Disease"} ELSE {})

\* the thresholds max_risk is compared with, in hundredths
RecommendationThresholds == {1500, 3000, 5000, 7000}

\* max_risk < 15, < 30, < 50, < 70: a quotient whose exact value is a
\* threshold may come out just below it
RecommendationOutcomes(ad, pd, validity_concerns) ==
    {_get_recommendation(ad, pd, validity_concerns)}
    \cup (IF \E t \in RecommendationThresholds : QEq(QMax(ad, pd), QInt(t))
          THEN {_get_recommendation(QSub(QMax(ad, pd), QInt(1)),
                                    QSub(QMax(ad, pd), QInt(1)), validity_concerns)}
          ELSE {})

\* the values calculate_composite can return for category_results cr
CompositeOutcomes(cr) ==
    LET exact == calculate_composite(cr)
        composite_ad == Normalize(WeightedSum(cr, "ad_risk", WEIGHTS_AD),
                                  TotalWeight(cr, WEIGHTS_AD))
        composite_pd == Normalize(WeightedSum(cr, "pd_risk", WEIGHTS_PD),
                                  TotalWeight(cr, WEIGHTS_PD))
        Overall(a, p) == (IF QGe(composite_ad, composite_pd) THEN {a} ELSE {})
                         \cup (IF QGe(composite_pd, composite_ad) THEN {p} ELSE {})
    IN  UNION UNION
        {{{[exact EXCEPT !.composite_ad_risk = a,
                         !.composite_pd_risk = p,
                         !.overall_risk = o,
                         !.primary_concern = c,
                         !.recommendation = r] :
              o \in Overall(a, p),
              c \in ConcernOutcomes(composite_ad, composite_pd),
              r \in RecommendationOutcomes(composite_ad, composite_pd,
                                           exact.validity_summary.concerns)} :
            p \in RoundOutcomes(composite_pd)} :
          a \in RoundOutcomes(composite_ad)}

----------------------------------------------------------------------------
(* The inputs explored *)

\* longest reaction_times sequence explored
MaxSamples == 12

\* longest queue of requests of one session explored
MaxPlan == 3

\* either no key k, or key k with one of the values
Opt(k, values) == {EmptyFeatures} \cup {k :> v : v \in values}

Rep(n, v) == [i \in 1..n |-> v]

\* reaction_times sequences: nFast samples of 100 ms, nNormal of 500 ms, nSlow of 4 s
RtSeq(nFast, nNormal, nSlow) == Rep(nFast, 10) \o Rep(nNormal, 50) \o Rep(nSlow, 400)

ReactionTimeInputs ==
    {RtSeq(0, 5, 0), RtSeq(2, 4, 0), RtSeq(0, 4, 2), RtSeq(0, 10, 0), RtSeq(2, 6, 2),
     RtSeq(0, MaxSamples - 1, 0), RtSeq(MaxSamples - 1, 0, 0), RtSeq(MaxSamples - 1, 1, 0),
     RtSeq(1, 0, MaxSamples - 1), RtSeq(0, MaxSamples - 2, 1)}

\* the two scenarios of the specification's testable properties
CognitiveScenario ==
    [stroop_accuracy |-> 97, nback_accuracy |-> 85, recall_accuracy |-> 75,
     delayed_recall_accuracy |-> 72, recognition_accuracy |-> 95]

MotorScenario == [tapping_rate |-> 150, tapping_regularity |-> 40]

StroopInputs ==
    {a @@ b @@ c : a \in Opt("stroop_accuracy", {97, 85, 70, 25, 0}),
                   b \in Opt("stroop_interference", {2000, 3000, 4000, 5000}),
                   c \in Opt("stroop_mean_rt", {50000, 100000, 150000})}

NbackInputs ==
    {a @@ b : a \in Opt("nback_accuracy", {85, 65, 51, 50, 25}),
              b \in Opt("nback_dprime", {100, 200})}

RecallInputs ==
    {a @@ b @@ c : a \in Opt("recall_accuracy", {80, 75, 60, 50, 20}),
                   b \in Opt("delayed_recall_accuracy", {72, 55, 40, 30}),
                   c \in Opt("recognition_accuracy", {95, 65, 50})}

\* one sub-test over all its tiers, the two others absent, best or low
CognitiveInputs ==
    {a @@ b @@ c :
        a \in StroopInputs,
        b \in {EmptyFeatures, [nback_accuracy |-> 85, nback_dprime |-> 200]},
        c \in {EmptyFeatures, [recall_accuracy |-> 75, delayed_recall_accuracy |-> 72,
                               recognition_accuracy |-> 95]}}
    \cup
    {a @@ b @@ c :
        a \in {EmptyFeatures, [stroop_accuracy |-> 97],
               [stroop_accuracy |-> 97, stroop_interference |-> 1500, stroop_mean_rt |-> 60000],
               [stroop_accuracy |-> 20]},
        b \in NbackInputs,
        c \in {EmptyFeatures, [recall_accuracy |-> 75, delayed_recall_accuracy |-> 72,
                               recognition_accuracy |-> 95],
               [recall_accuracy |-> 20]}}
    \cup
    {a @@ b @@ c :
        a \in {EmptyFeatures, [stroop_accuracy |-> 97],
               [stroop_accuracy |-> 97, stroop_interference |-> 1500, stroop_mean_rt |-> 60000]},
        b \in {EmptyFeatures, [nback_accuracy |-> 85, nback_dprime |-> 200]},
        c \in RecallInputs}

SpeechInputs ==
    {a @@ b @@ c @@ d :
        a \in Opt("story_recall_accuracy", {30, 50, 70, 85}),
        b \in Opt("vowel_duration", {300, 700, 1200, 1600}),
        c \in Opt("speech_rate", {9000, 11000, 15000}),
        d \in Opt("fluency_word_count", {800, 1200, 1500, 2000})}

MotorInputs ==
    {a @@ b @@ c @@ d @@ e :
        a \in Opt("tapping_rate", {150, 250, 350, 450}),
        b \in Opt("tapping_regularity", {20, 40, 75, 85, 95}),
        c \in Opt("tapping_fatigue", {5, 20}),
        d \in {EmptyFeatures, [spiral_duration |-> 0, spiral_tremor |-> 80]}
              \cup {[spiral_duration |-> 1000, spiral_tremor |-> t] : t \in {5, 20, 40, 60, 80}}
              \cup {[spiral_duration |-> 1000]},
        e \in Opt("tremor_frequency", {500})}

GaitInputs ==
    {a @@ b @@ c @@ d @@ e @@ f :
        a \in Opt("steps", {2000}),
        b \in Opt("gait_speed", {50, 70, 90, 110}),
        c \in Opt("step_regularity", {95}),
        d \in Opt("balance_duration", {3000}),
        e \in Opt("balance_sway", {20, 35, 50, 70}),
        f \in Opt("balance_stability", {95})}

FacialInputs ==
    {a @@ b @@ c :
        a \in Opt("blink_rate", {800, 1100, 1300, 1700, 2500}),
        b \in Opt("smile_count", {300}),
        c \in Opt("smile_intensity", {30, 50, 70, 90})}

\* the features only the validity detector reads
ConsistencyInputs ==
    {a @@ b @@ c @@ d :
        a \in Opt("stroop_congruent_accuracy", {65, 90}),
        b \in Opt("stroop_incongruent_accuracy", {95}),
        c \in {EmptyFeatures,
               [simple_reaction_time |-> 60000, choice_reaction_time |-> 30000],
               [simple_reaction_time |-> 30000, choice_reaction_time |-> 40000],
               [easy_items_correct |-> 20, hard_items_correct |-> 80],
               [easy_items_correct |-> 80, hard_items_correct |-> 80],
               [cognitive_score |-> 500, motor_score |-> 9800],
               [cognitive_score |-> 500],
               [stroop_accuracy |-> 20, nback_accuracy |-> 25, recall_accuracy |-> 20],
               [stroop_accuracy |-> 20, nback_accuracy |-> 25, tapping_regularity |-> 20,
                recall_accuracy |-> 20, recognition_accuracy |-> 50]},
        d \in {EmptyFeatures} \cup {[reaction_times |-> r] : r \in ReactionTimeInputs}}

EffortInputs ==
    {a @@ b @@ c @@ d :
        a \in Opt("test_completion_rate", {40, 50}),
        b \in Opt("response_rate", {60, 70}),
        c \in Opt("practice_improvement", {-30, -20, 10}),
        d \in {EmptyFeatures, [nback_accuracy |-> 50], [reaction_times |-> RtSeq(MaxSamples - 1, 1, 0)]}}

\* improbable-score patterns, alone and together, with and without a timing anomaly
ImprobabilityInputs ==
    {a @@ b @@ c @@ d :
        a \in {EmptyFeatures, [easy_items_correct |-> 20, hard_items_correct |-> 80]},
        b \in {EmptyFeatures, [cognitive_score |-> 500, motor_score |-> 9800]},
        c \in {EmptyFeatures,
               [stroop_accuracy |-> 20, recall_accuracy |-> 20, tapping_regularity |-> 20]},
        d \in {EmptyFeatures, [reaction_times |-> RtSeq(MaxSamples - 1, 1, 0)],
               [test_completion_rate |-> 40]}}

\* values on both sides of each below-chance floor
FloorInputs ==
    {a @@ b @@ c :
        a \in Opt("nback_accuracy", {50, 51}),
        b \in Opt("recognition_accuracy", {59, 60}),
        c \in Opt("stroop_congruent_accuracy", {69, 70})}

\* "unknown" stands for any string that is none of the five categories
AllCategories == Categories \cup {"unknown"}

\* the single requests explored: <<category, features>>
SingleCalls ==
    ({"cognitive"} \X CognitiveInputs)
    \cup ({"speech"} \X SpeechInputs)
    \cup ({"motor"} \X MotorInputs)
    \cup ({"gait"} \X GaitInputs)
    \cup ({"facial"} \X FacialInputs)
    \cup ({"cognitive", "motor", "unknown"} \X (ConsistencyInputs \cup EffortInputs))
    \cup ({"cognitive", "facial"} \X FloorInputs)
    \cup ({"cognitive", "motor"} \X ImprobabilityInputs)
    \cup (AllCategories \X {EmptyFeatures, CognitiveScenario, MotorScenario})

\* the requests a session of several assessments is built from
SessionCalls ==
    {<<"cognitive", CognitiveScenario>>,
     <<"cognitive", [recall_accuracy |-> 80, recognition_accuracy |-> 50]>>,
     <<"motor", MotorScenario>>,
     <<"motor", [tapping_rate |-> 500, tapping_regularity |-> 95,
                 reaction_times |-> RtSeq(MaxSamples - 1, 1, 0)]>>,
     <<"gait", [steps |-> 2000, gait_speed |-> 50, balance_duration |-> 3000,
                balance_sway |-> 70]>>,
     <<"speech", [story_recall_accuracy |-> 85, vowel_duration |-> 1600,
                  speech_rate |-> 15000, fluency_word_count |-> 2000]>>,
     <<"facial", [blink_rate |-> 800, smile_count |-> 300, smile_intensity |-> 30]>>,
     <<"unknown", [nback_accuracy |-> 50]>>,
     <<"gait", [balance_duration |-> 3000]>>,
     <<"motor", [tapping_rate |-> 450, tapping_regularity |-> 85]>>,
     <<"speech", [story_recall_accuracy |-> 50, vowel_duration |-> 700]>>,
     <<"facial", EmptyFeatures>>}

Plans ==
    {<<c>> : c \in SingleCalls}
    \cup UNION {[1..n -> SessionCalls] : n \in 2..MaxPlan}

----------------------------------------------------------------------------
(* TestService: the life of one test session (app/services/test_service.py) *)

TestStatusEnum ==
    [PENDING |-> "pending", IN_PROGRESS |-> "in_progress", COMPLETED |-> "completed",
     CANCELLED |-> "cancelled", FAILED |-> "failed"]

RiskLevelEnum ==
    [LOW |-> "low", MODERATE |-> "moderate", HIGH |-> "high", CRITICAL |-> "critical"]

\* a nullable column: NULL, or one value
Null == <<>>

Some(v) == <<v>>

\* the users that call the service; the test belongs to the first
Users == {"user_1", "user_2"}

\* most TestResult rows of one test explored
MaxItems == 3

\* create_test: a new row, status PENDING, every result column NULL.
\* Scores and percentages are in tenths; the clock is not modelled, so
\* started_at and completed_at are NULL or "set" and duration_seconds is left out
NewTest ==
    [user_id |-> "user_1",
     status |-> TestStatusEnum.PENDING,
     raw_data |-> Null,
     score |-> Null,
     risk_percentage |-> Null,
     risk_level |-> Null,
     ai_prediction |-> Null,
     started_at |-> Null,
     completed_at |-> Null]

\* _get_test: the row is found only for the user that owns it
TestFound(row, user_id) == row.user_id = user_id

\* test.status != TestStatusEnum.PENDING
\* variant: only a test in progress refuses to start
StartRejectedInProgressOnly(row) == row.status = TestStatusEnum.IN_PROGRESS

StartRejected(row) == row.status # TestStatusEnum.PENDING

\* test.status != TestStatusEnum.IN_PROGRESS, in submit_test_item
SubmitRejected(row) == row.status # TestStatusEnum.IN_PROGRESS

\* test.status != TestStatusEnum.IN_PROGRESS, in complete_test
CompleteRejected(row) == row.status # TestStatusEnum.IN_PROGRESS

\* round(random.uniform(60, 95), 1): some of the values it can take, in tenths
MockScores == {600, 777, 950}

\* processed_value of a submitted item, in thousandths: NULL, 0.5, 0.95, 72.0, 150.0
ItemValues == {Null, Some(500), Some(950), Some(72000), Some(150000)}

\* the scores _analyze_test_item can give a processed_value, in tenths
ItemScores(processed_value) ==
    IF processed_value # Null
    THEN LET v == processed_value[1]
         IN  IF v <= 1000 THEN {v}
             ELSE {Min(r, 1000) : r \in RoundOutcomes(Q(v, 100))}
    ELSE MockScores

\* the notes _analyze_test_item writes for a score
ItemNotes(score) ==
    IF score >= 900 THEN "Excellent performance"
    ELSE IF score >= 700 THEN "Good performance"
    ELSE IF score >= 600 THEN "Acceptable performance, room for improvement"
    ELSE "Below threshold, may indicate concern"

\* the TestResult row submit_test_item adds
NewResult(processed_value, score) ==
    [processed_value |-> processed_value,
     score |-> score,
     is_abnormal |-> score < 600,
     notes |-> ItemNotes(score)]

RECURSIVE SumOfScores(_)
SumOfScores(rows) ==
    IF rows = <<>> THEN 0 ELSE Head(rows).score + SumOfScores(Tail(rows))

RECURSIVE AbnormalCount(_)
AbnormalCount(rows) ==
    IF rows = <<>> THEN 0
    ELSE (IF Head(rows).is_abnormal THEN 1 ELSE 0) + AbnormalCount(Tail(rows))

\* test.score: the mean of the item scores rounded to one decimal, or a mock
\* score when the test has no item
OverallScores(rows) ==
    IF rows # <<>> THEN RoundOutcomes(Q(SumOfScores(rows), Len(rows))) ELSE MockScores

\* the risk level of a risk_percentage in tenths
RiskLevelOf(risk_percentage) ==
    IF risk_percentage < 250 THEN RiskLevelEnum.LOW
    ELSE IF risk_percentage < 500 THEN RiskLevelEnum.MODERATE
    ELSE IF risk_percentage < 750 THEN RiskLevelEnum.HIGH
    ELSE RiskLevelEnum.CRITICAL

\* the row complete_test leaves for an overall score; the random
\* probabilities, biomarkers and SHAP values of _process_test_results are
\* mock values no later step reads and are left out
CompletedTest(row, rows, raw_data, score) ==
    [row EXCEPT !.completed_at = Some("set"),
                !.status = TestStatusEnum.COMPLETED,
                !.raw_data = IF raw_data # Null THEN raw_data ELSE @,
                !.score = Some(score),
                !.risk_percentage = Some(1000 - score),
                !.risk_level = Some(RiskLevelOf(1000 - score)),
                !.ai_prediction = Some([predicted_class |-> RiskLevelOf(1000 - score),
                                        total_items |-> Len(rows),
                                        abnormal_items |-> AbnormalCount(rows)])]

\* no TestService call made yet
NoCall == [op |-> "none", user_id |-> "", status_code |-> 0]

----------------------------------------------------------------------------
(* The state machine: a caller that works through its queue of requests *)

None == [none |-> TRUE]

Init ==
    /\ pending \in Plans
    /\ pc = "idle"
    /\ category = ""
    /\ features = EmptyFeatures
    /\ indicators = IndicatorDefaults
    /\ results = None
    /\ category_results = <<>>
    /\ composite = None
    /\ snapshot = None
    /\ test = NewTest
    /\ test_results = <<>>
    /\ response = NoCall

\* the caller's FeatureSet once calculate_risk_scores has returned: the
\* detector and the assessors only read it, with features.get(...)
\* variant: the gait assessor stores the defaults it reads, as
\* features.setdefault(...) would
FeaturesWithDefaultsStored(cat, F) ==
    IF cat = "gait"
    THEN F @@ [gait_speed |-> 0, step_regularity |-> 0, balance_sway |-> 0,
               balance_stability |-> 0]
    ELSE F

FeaturesAfterCall(cat, F) == F

\* the caller's mapping once calculate_risk_scores has returned: the flag note
\* goes into the clinical_notes list of the result being built, a list the
\* assessor has just created, never into a result handed out earlier
ResultsAfterCall(cr, cat, F) == cr

\* the caller's mapping once calculate_composite has returned: the loop only
\* reads each result with results.get(...), and validity_concerns is a list of
\* its own
ResultsAfterFusion(cr) == cr

\* results = await fusion.calculate_risk_scores(category, features)
CalculateRiskScores ==
    /\ pc = "idle"
    /\ pending # <<>>
    /\ category' = Head(pending)[1]
    /\ features' = FeaturesAfterCall(Head(pending)[1], Head(pending)[2])
    /\ indicators' = assess_validity(Head(pending)[2])
    /\ results' = calculate_risk_scores(Head(pending)[1], Head(pending)[2])
    /\ category_results' = ResultsAfterCall(category_results, Head(pending)[1], Head(pending)[2])
    /\ pending' = Tail(pending)
    /\ pc' = "assessed"
    /\ UNCHANGED <<composite, snapshot>>
    /\ UNCHANGED test_vars

\* the caller keeps the call, and how many requests were still waiting,
\* to compare a later call with
Remember ==
    /\ pc = "assessed"
    /\ snapshot = None
    /\ snapshot' = [category |-> category, features |-> features, results |-> results,
                    waiting |-> Len(pending)]
    /\ UNCHANGED <<pending, pc, category, features, indicators, results,
                   category_results, composite>>
    /\ UNCHANGED test_vars

\* category_results[category] = results; the composite view is now stale
Collect ==
    /\ pc = "assessed"
    /\ ~Raised(results)
    /\ category_results' = Put(category_results, category, results)
    /\ composite' = None
    /\ pc' = "idle"
    /\ UNCHANGED <<pending, category, features, indicators, results, snapshot>>
    /\ UNCHANGED test_vars

\* composite = composite_fusion.calculate_composite(category_results)
CalculateComposite ==
    /\ pc = "idle"
    /\ composite' \in CompositeOutcomes(category_results)
    /\ category_results' = ResultsAfterFusion(category_results)
    /\ UNCHANGED <<pending, pc, category, features, indicators, results, snapshot>>
    /\ UNCHANGED test_vars

Next == CalculateRiskScores \/ Remember \/ Collect \/ CalculateComposite

Spec == Init /\ [][Next]_vars

----------------------------------------------------------------------------
(* The state machine of one test session: the calls users make on one test *)

TestInit ==
    /\ pending = <<>>
    /\ pc = "idle"
    /\ category = ""
    /\ features = EmptyFeatures
    /\ indicators = IndicatorDefaults
    /\ results = None
    /\ category_results = <<>>
    /\ composite = None
    /\ snapshot = None
    /\ test = NewTest
    /\ test_results = <<>>
    /\ response = NoCall

\* a call that raised HTTPException(status_code) before it changed anything
Refused(op, user_id, status_code) ==
    /\ response' = [op |-> op, user_id |-> user_id, status_code |-> status_code]
    /\ UNCHANGED <<test, test_results>>

\* await test_service.start_test(test_id, user_id)
StartTest(user_id) ==
    /\ IF ~TestFound(test, user_id) THEN Refused("start_test", user_id, 404)
       ELSE IF StartRejected(test) THEN Refused("start_test", user_id, 400)
       ELSE /\ test' = [test EXCEPT !.status = TestStatusEnum.IN_PROGRESS,
                                    !.started_at = Some("set")]
            /\ response' = [op |-> "start_test", user_id |-> user_id, status_code |-> 200]
            /\ UNCHANGED test_results
    /\ UNCHANGED fusion_vars

\* await test_service.submit_test_item(test_id, user_id, item_data)
SubmitTestItem(user_id, processed_value) ==
    /\ Len(test_results) < MaxItems
    /\ IF ~TestFound(test, user_id) THEN Refused("submit_test_item", user_id, 404)
       ELSE IF SubmitRejected(test) THEN Refused("submit_test_item", user_id, 400)
       ELSE /\ \E score \in ItemScores(processed_value) :
                  test_results' = Append(test_results, NewResult(processed_value, score))
            /\ response' = [op |-> "submit_test_item", user_id |-> user_id,
                            status_code |-> 200]
            /\ UNCHANGED test
    /\ UNCHANGED fusion_vars

\* await test_service.complete_test(test_id, user_id, raw_data)
CompleteTest(user_id, raw_data) ==
    /\ IF ~TestFound(test, user_id) THEN Refused("complete_test", user_id, 404)
       ELSE IF CompleteRejected(test) THEN Refused("complete_test", user_id, 400)
       ELSE /\ \E score \in OverallScores(test_results) :
                  test' = CompletedTest(test, test_results, raw_data, score)
            /\ response' = [op |-> "complete_test", user_id |-> user_id,
                            status_code |-> 200]
            /\ UNCHANGED test_results
    /\ UNCHANGED fusion_vars

TestNext ==
    \E user_id \in Users :
        \/ StartTest(user_id)
        \/ \E processed_value \in ItemValues : SubmitTestItem(user_id, processed_value)
        \/ \E raw_data \in {Null, Some("recording")} : CompleteTest(user_id, raw_data)

TestSpec == TestInit /\ [][TestNext]_vars


----------------------------------------------------------------------------
(* Properties of the Bayesian fusion core *)

\* a risk or score in hundredths of a percent point lies in [0, 100]
InPercentRange(x) == 0 <= x /\ x <= 10000

\* C1: every result calculate_risk_scores returns has ad_risk, pd_risk and
\* category_score in [0, 100] and a validity confidence in [0, 1], and every
\* composite has composite_ad_risk, composite_pd_risk and overall_risk in
\* [0, 100].
C1_RangeInvariant ==
    /\ (results # None /\ ~Raised(results)) =>
          /\ InPercentRange(results.ad_risk)
          /\ InPercentRange(results.pd_risk)
          /\ InPercentRange(results.category_score)
          /\ 0 <= results.validity.confidence
          /\ results.validity.confidence <= 100
    /\ composite # None =>
          /\ InPercentRange(composite.composite_ad_risk)
          /\ InPercentRange(composite.composite_pd_risk)
          /\ InPercentRange(composite.overall_risk)

\* a result at the end of its range (category_score 0, every motor sub-score
\* at its maximum) and a composite over several categories
C1_Witness ==
    /\ results # None
    /\ ~Raised(results)
    /\ category = "motor"
    /\ results.category_score = 0
    /\ results.pd_risk > 0
    /\ composite # None
    /\ Len(category_results) >= 2
    /\ composite.overall_risk > 0

\* C2: calculate_risk_scores never fails: whatever the category (known or
\* not) and the FeatureSet, the call returns a result that carries a validity
\* verdict, never a ZeroDivisionError or a KeyError.
C2_NeverFails ==
    pc = "assessed" =>
        /\ ~Raised(results)
        /\ "validity" \in DOMAIN results
        /\ results.validity.status \in ValidityStatus
        /\ "clinical_notes" \in DOMAIN results

\* an unrecognized category whose features draw a validity flag: the default
\* assessment is returned and the flag is inserted into its notes
C2_Witness ==
    /\ pc = "assessed"
    /\ category \notin Categories
    /\ features # EmptyFeatures
    /\ ~Raised(results)
    /\ results.validity.status # VALID
    /\ results.clinical_notes[1] = ValidityFlagNote(results.validity.status)
    /\ results.stage = "Unknown"

\* C3: a call with the same category and FeatureSet as a remembered call
\* returns the same result whatever calls came before or in between, and the
\* indicators of a call count only what that call's features show: nothing
\* of an earlier call's lists or counters carries over.
C3_HistoryIndependent ==
    /\ (snapshot # None /\ pc = "assessed" /\ snapshot.category = category
          /\ snapshot.features = features) => snapshot.results = results
    /\ Len(indicators.below_chance_tests) <= 3
    /\ Len(indicators.inconsistent_patterns) <= 3
    /\ indicators.too_fast_responses + indicators.too_slow_responses
          <= Len(Get(features, "reaction_times", <<>>))
    /\ (pc = "assessed" /\ ~Raised(results)) =>
          results.validity.concerns = indicators.validity_concerns

\* the remembered call drew validity flags, other requests were served since,
\* and the same request has just been assessed again
C3_Witness ==
    /\ snapshot # None
    /\ pc = "assessed"
    /\ snapshot.waiting >= Len(pending) + 2
    /\ snapshot.category = category
    /\ snapshot.features = features
    /\ snapshot.results = results
    /\ indicators.below_chance_tests # <<>>
    /\ indicators.inconsistent_patterns # <<>>

\* C4: the cognitive scenario (stroop_accuracy 0.97, nback_accuracy 0.85,
\* recall_accuracy 0.75, delayed_recall_accuracy 0.72, recognition_accuracy
\* 0.95, nothing else) is assessed as stage "Normal" with ad_risk < 10,
\* category_score > 85 and validity status Valid.
C4_CognitiveScenario ==
    (pc = "assessed" /\ category = "cognitive" /\ features = CognitiveScenario) =>
        /\ ~Raised(results)
        /\ results.stage = CognitiveStage.NORMAL
        /\ results.ad_risk < 1000
        /\ results.category_score > 8500
        /\ results.validity.status = VALID

BradykinesiaNotes ==
    { <<"Reduced tapping rate - bradykinesia indicator">>,
      <<"Significant bradykinesia detected">> }

\* C5: the motor scenario (tapping_rate 1.5, tapping_regularity 0.40, nothing
\* else) is assessed with a bradykinesia clinical note, pd_risk > 40 and a
\* Hoehn-Yahr stage of at least 2.
C5_MotorScenario ==
    (pc = "assessed" /\ category = "motor" /\ features = MotorScenario) =>
        /\ ~Raised(results)
        /\ Range(results.clinical_notes) \cap BradykinesiaNotes # {}
        /\ results.pd_risk > 4000
        /\ HoehnYahrNumber(results.hoehn_yahr) >= 20

\* C6: for each of the five categories an empty FeatureSet is assessed with
\* neutral defaults: a mid-range category_score and the "insufficient data"
\* note, neither a zero score nor a perfect one.
C6_EmptyFeatureSetIsNeutral ==
    (pc = "assessed" /\ category \in Categories /\ features = EmptyFeatures) =>
        /\ ~Raised(results)
        /\ results.category_score > 0
        /\ results.category_score < 10000
        /\ <<"Insufficient data for assessment">> \in Range(results.clinical_notes)

\* no domain gets more points from sub-test Points on F without k than on F
NeverMoreWithout(Points(_), F, k) ==
    \A d \in Range(DomainNames) : Points(Without(F, k))[d] <= Points(F)[d]

\* C7: in the cognitive assessor, removing a key from the FeatureSet never
\* raises the points a sub-test awards to a domain; removing stroop_mean_rt
\* never raises the processing-speed points.
C7_MissingDataMonotone ==
    (pc = "assessed" /\ category = "cognitive") =>
        \A k \in DOMAIN features :
            /\ NeverMoreWithout(StroopPoints, features, k)
            /\ NeverMoreWithout(NbackPoints, features, k)
            /\ NeverMoreWithout(RecallPoints, features, k)

\* C8: whenever recall_accuracy exceeds recognition_accuracy by more than
\* 0.15, whatever other keys are present, assess_validity reports a status
\* other than Valid and records the "impossible pattern" entry.
C8_ImpossiblePatternDetected ==
    (/\ pc = "assessed"
     /\ Has(features, "recall_accuracy")
     /\ Has(features, "recognition_accuracy")
     /\ features["recall_accuracy"] - features["recognition_accuracy"] > 15) =>
        /\ indicators.validity_status # VALID
        /\ "Recall > Recognition (impossible pattern)"
              \in Range(indicators.inconsistent_patterns)
        /\ ~Raised(results)
        /\ results.validity.status = indicators.validity_status

\* recall 0.8 against recognition 0.5 with other keys present
C8_Witness ==
    /\ pc = "assessed"
    /\ Has(features, "recall_accuracy")
    /\ Has(features, "recognition_accuracy")
    /\ features["recall_accuracy"] = 80
    /\ features["recognition_accuracy"] = 50
    /\ Cardinality(DOMAIN features) > 2
    /\ indicators.validity_status = INVALID
    /\ "Recall > Recognition (impossible pattern)"
          \in Range(indicators.inconsistent_patterns)

\* the below-chance entries the three floors call for on FeatureSet F
FloorsViolated(F) ==
    (IF Has(F, "nback_accuracy") /\ F["nback_accuracy"] <= 50
     THEN {"N-Back at/below chance level"} ELSE {})
    \cup (IF Has(F, "recognition_accuracy") /\ F["recognition_accuracy"] < 60
          THEN {"Recognition memory suspiciously low"} ELSE {})
    \cup (IF Has(F, "stroop_congruent_accuracy") /\ F["stroop_congruent_accuracy"] < 70
          THEN {"Simple Stroop performance too low"} ELSE {})

\* C9: assess_validity records a below-chance hit for nback_accuracy exactly
\* when the key is present with a value <= 0.50, for recognition_accuracy
\* exactly when present and < 0.60, for stroop_congruent_accuracy exactly
\* when present and < 0.70; the number of hits is the number of floors
\* violated and each hit comes with at least one concern.
C9_BelowChanceFloors ==
    pc = "assessed" =>
        /\ Range(indicators.below_chance_tests) = FloorsViolated(features)
        /\ Len(indicators.below_chance_tests) = Cardinality(FloorsViolated(features))
        /\ Len(indicators.validity_concerns) >= Len(indicators.below_chance_tests)

\* nback_accuracy exactly 0.50 triggers while recognition 0.60 and congruent
\* Stroop 0.70, exactly on their floors, do not
C9_Witness ==
    /\ pc = "assessed"
    /\ Has(features, "nback_accuracy")
    /\ features["nback_accuracy"] = 50
    /\ Has(features, "recognition_accuracy")
    /\ features["recognition_accuracy"] = 60
    /\ Has(features, "stroop_congruent_accuracy")
    /\ features["stroop_congruent_accuracy"] = 70
    /\ indicators.below_chance_tests = <<"N-Back at/below chance level">>

\* C10: a composite over exactly one category result has that result's own
\* ad_risk as composite_ad_risk and its own pd_risk as composite_pd_risk.
C10_SingleCategoryComposite ==
    (composite # None /\ Len(category_results) = 1) =>
        /\ composite.composite_ad_risk = category_results[1].results.ad_risk
        /\ composite.composite_pd_risk = category_results[1].results.pd_risk

\* only "motor" has been assessed, with a pd_risk of 60
C10_Witness ==
    /\ composite # None
    /\ Len(category_results) = 1
    /\ category_results[1].category = "motor"
    /\ category_results[1].results.pd_risk = 6000
    /\ composite.composite_pd_risk = 6000
    /\ composite.composite_ad_risk = 600

\* the results supplied for category c in category_results cr
ResultsOf(cr, c) == cr[CHOOSE i \in 1..Len(cr) : cr[i].category = c].results

\* sum of weights[c] * term[c] over the categories c of S
RECURSIVE WeightedOver(_, _, _)
WeightedOver(S, weights, term) ==
    IF S = {} THEN 0
    ELSE LET c == CHOOSE c \in S : TRUE
         IN  weights[c] * term[c] + WeightedOver(S \ {c}, weights, term)

\* r, in hundredths, is numerator / denominator rounded to the hundredth
RoundedQuotient(r, numerator, denominator) ==
    /\ 2 * (r * denominator - numerator) <= denominator
    /\ 2 * (numerator - r * denominator) <= denominator

\* C11: for every non-empty set S of the five categories supplied,
\* composite_ad_risk is the sum over S of WEIGHTS_AD[c] * ad_risk[c] divided
\* by the sum over S of WEIGHTS_AD[c] (to the hundredth it is rounded to),
\* likewise composite_pd_risk with WEIGHTS_PD, and categories_assessed is S.
C11_PartialCoverageFusion ==
    (/\ composite # None
     /\ category_results # <<>>
     /\ Range(Keys(category_results)) \subseteq Categories) =>
        LET S == Range(Keys(category_results))
            AdRisk == [c \in S |-> ResultsOf(category_results, c).ad_risk]
            PdRisk == [c \in S |-> ResultsOf(category_results, c).pd_risk]
            One == [c \in S |-> 1]
        IN  /\ RoundedQuotient(composite.composite_ad_risk,
                               WeightedOver(S, WEIGHTS_AD, AdRisk),
                               WeightedOver(S, WEIGHTS_AD, One))
            /\ RoundedQuotient(composite.composite_pd_risk,
                               WeightedOver(S, WEIGHTS_PD, PdRisk),
                               WeightedOver(S, WEIGHTS_PD, One))
            /\ Range(composite.categories_assessed) = S
            /\ Len(composite.categories_assessed) = Cardinality(S)

\* motor and gait only: the composite lies strictly between the two risks
C11_Witness ==
    /\ composite # None
    /\ Range(Keys(category_results)) = {"motor", "gait"}
    /\ ResultsOf(category_results, "motor").pd_risk = 6000
    /\ ResultsOf(category_results, "gait").pd_risk = 3000
    /\ composite.composite_pd_risk = 4750
    /\ Range(composite.categories_assessed) = {"motor", "gait"}

\* the composite AD and PD risks of category_results cr, as exact quotients
CompositeAd(cr) ==
    Normalize(WeightedSum(cr, "ad_risk", WEIGHTS_AD), TotalWeight(cr, WEIGHTS_AD))

CompositePd(cr) ==
    Normalize(WeightedSum(cr, "pd_risk", WEIGHTS_PD), TotalWeight(cr, WEIGHTS_PD))

\* a exceeds b by more than 10 points
ExceedsByMoreThanTen(a, b) == QLt(QAdd(b, QInt(1000)), a)

\* C12: primary_concern is "Alzheimer's Disease" exactly when the composite
\* AD risk exceeds the composite PD risk by more than 10 points, "Parkinson's
\* Disease" exactly when PD exceeds AD by more than 10 points, and
\* "Mixed/Undetermined" otherwise, a difference of exactly 10 and an empty
\* category_results included.
C12_PrimaryConcernLabel ==
    composite # None =>
        LET ad == CompositeAd(category_results)
            pd == CompositePd(category_results)
        IN  /\ (composite.primary_concern = "Alzheimer's Disease")
                  <=> ExceedsByMoreThanTen(ad, pd)
            /\ (composite.primary_concern = "Parkinson's Disease")
                  <=> ExceedsByMoreThanTen(pd, ad)
            /\ (composite.primary_concern = "Mixed/Undetermined")
                  <=> (~ExceedsByMoreThanTen(ad, pd) /\ ~ExceedsByMoreThanTen(pd, ad))

\* the supplied categories whose verdict status is not Valid
NotValidCategories(cr) ==
    {c \in Range(Keys(cr)) : ResultsOf(cr, c).validity.status # VALID}

\* C13: validity_summary.all_valid is true if and only if every supplied
\* category's verdict status is Valid, and validity_summary.concerns holds
\* exactly one entry, naming the category and its status, for each supplied
\* category whose status is not Valid.
C13_ValidityAggregation ==
    composite # None =>
        LET concerns == composite.validity_summary.concerns
            flagged == NotValidCategories(category_results)
        IN  /\ composite.validity_summary.all_valid <=> (flagged = {})
            /\ Range(concerns) =
                  {<<c, ResultsOf(category_results, c).validity.status>> : c \in flagged}
            /\ Len(concerns) = Cardinality(flagged)

\* three categories supplied, one Valid, one Questionable, one Invalid
C13_Witness ==
    /\ composite # None
    /\ Len(category_results) = 3
    /\ Cardinality(NotValidCategories(category_results)) = 2
    /\ \E c \in Range(Keys(category_results)) :
          ResultsOf(category_results, c).validity.status = QUESTIONABLE
    /\ \E c \in Range(Keys(category_results)) :
          ResultsOf(category_results, c).validity.status = INVALID
    /\ ~composite.validity_summary.all_valid
    /\ Len(composite.validity_summary.concerns) = 2

\* the recommendation of the band max_risk, in hundredths, falls in
BandRecommendation(max_risk) ==
    IF QLt(max_risk, QInt(1500))
    THEN "Results within normal limits. Continue regular health monitoring."
    ELSE IF QLt(max_risk, QInt(3000))
    THEN "Minor deviations noted. Consider follow-up assessment in 6-12 months."
    ELSE IF QLt(max_risk, QInt(5000))
    THEN "Some concerns identified. Consultation with a neurologist is recommended."
    ELSE IF QLt(max_risk, QInt(7000))
    THEN "Moderate risk indicators present. Clinical evaluation is strongly recommended."
    ELSE "Significant risk indicators detected. Urgent neurological evaluation is recommended."

\* C14: when a supplied category has a verdict other than Valid the
\* recommendation is the "results may be unreliable ... re-testing" one,
\* whatever the risks; when all are Valid it is the one of the band of
\* max(composite AD, composite PD): below 15, 30, 50, 70, or from 70 up,
\* the lower bound of each band belonging to the band.
C14_RecommendationSelection ==
    composite # None =>
        IF NotValidCategories(category_results) # {}
        THEN composite.recommendation =
               "Results may be unreliable due to validity concerns. Consider re-testing under standardized conditions."
        ELSE composite.recommendation =
               BandRecommendation(QMax(CompositeAd(category_results),
                                       CompositePd(category_results)))

VerdictTotal(ind) ==
    3 * Len(ind.below_chance_tests)
    + 3 * Len(ind.inconsistent_patterns)
    + 2 * Len(ind.improbable_scores)
    + (IF ind.too_fast_responses > 10 \/ ind.too_slow_responses > 10 THEN 1 ELSE 0)

\* C16: with total = 3 * below-chance hits + 3 * inconsistent hits + 2 *
\* improbable hits + 1 if the too-fast or the too-slow count exceeds 10, the
\* verdict is Valid with confidence 1.0 when total = 0, Questionable when
\* total is 1 or 2, Invalid when total >= 3 with a below-chance or
\* inconsistent hit, InvalidPoorEffort when total >= 5 without one,
\* Questionable otherwise, and the confidence is max(0, 1 - 0.1 * total).
C16_VerdictDerivation ==
    pc = "assessed" =>
        LET total == VerdictTotal(indicators)
            hit == indicators.below_chance_tests # <<>>
                   \/ indicators.inconsistent_patterns # <<>>
            status == indicators.validity_status
        IN  /\ total = 0 => (status = VALID /\ indicators.validity_confidence = 100)
            /\ total \in {1, 2} => status = QUESTIONABLE
            /\ (total >= 3 /\ hit) => status = INVALID
            /\ (total >= 5 /\ ~hit) => status = INVALID_POOR_EFFORT
            /\ (total \in {3, 4} /\ ~hit) => status = QUESTIONABLE
            /\ indicators.validity_confidence = Max(0, 100 - 10 * total)
            /\ ~Raised(results) =>
                  /\ results.validity.status = status
                  /\ results.validity.confidence = indicators.validity_confidence

\* three improbable scores and nothing else: total 6, InvalidPoorEffort at 0.4
C16_Witness ==
    /\ pc = "assessed"
    /\ Len(indicators.improbable_scores) = 3
    /\ indicators.below_chance_tests = <<>>
    /\ indicators.inconsistent_patterns = <<>>
    /\ indicators.too_fast_responses = 0
    /\ indicators.validity_status = INVALID_POOR_EFFORT
    /\ indicators.validity_confidence = 40
    /\ results.validity.status = INVALID_POOR_EFFORT

\* the effort indicators FeatureSet F hits
EffortHits(F) ==
    (IF Has(F, "test_completion_rate") /\ F["test_completion_rate"] < 50 THEN 1 ELSE 0)
    + (IF Has(F, "response_rate") /\ F["response_rate"] < 70 THEN 1 ELSE 0)
    + (IF Has(F, "practice_improvement") /\ F["practice_improvement"] < -20 THEN 1 ELSE 0)

\* C17: each effort-indicator hit (test_completion_rate < 0.5, response_rate
\* < 0.7, practice_improvement < -0.2) adds 1 to the validity total, so a
\* FeatureSet whose only anomaly is one effort indicator is Questionable
\* with confidence 0.9, not Valid with confidence 1.0.
C17_EffortIndicatorsCount ==
    pc = "assessed" =>
        LET total == VerdictTotal(indicators) + EffortHits(features)
        IN  /\ indicators.validity_confidence = Max(0, 100 - 10 * total)
            /\ (VerdictTotal(indicators) = 0 /\ EffortHits(features) = 1) =>
                  /\ indicators.validity_status = QUESTIONABLE
                  /\ indicators.validity_confidence = 90

\* the possible points of each domain
DomainBudget ==
    [attention_concentration |-> 6, executive_function |-> 5, memory_immediate |-> 5,
     memory_delayed |-> 5, working_memory |-> 4, processing_speed |-> 3, language |-> 3]

\* C18: in the cognitive assessor the points earned in each of the seven
\* domains never exceed the domain's budget (attention 6, executive 5,
\* immediate memory 5, delayed memory 5, working memory 4, processing speed
\* 3, language 3), so every domain percentage lies in [0, 100].
C18_DomainBudgets ==
    (pc = "assessed" /\ category = "cognitive" /\ ~Raised(results)) =>
        /\ DOMAIN results.domain_scores = DOMAIN DomainBudget
        /\ \A d \in DOMAIN DomainBudget :
              /\ results.domain_scores[d][2] = DomainBudget[d]
              /\ 0 <= results.domain_scores[d][1]
              /\ results.domain_scores[d][1] <= DomainBudget[d]
              /\ 0 <= results.domain_percentages[d]
              /\ results.domain_percentages[d] <= 1000

\* FeatureSet F without the keys of K
WithoutKeys(F, K) == [j \in (DOMAIN F) \ K |-> F[j]]

StroopKeys == {"stroop_accuracy", "stroop_interference", "stroop_mean_rt"}

NbackKeys == {"nback_accuracy", "nback_dprime"}

RecallKeys == {"recall_accuracy", "delayed_recall_accuracy", "recognition_accuracy"}

\* the points a sub-test earns over all domains
Earned(points) == SumOver(points, DomainNames)

\* the cognitive result without the sub-test's keys is strictly better than results
StrictlyBetterWithout(K) ==
    LET omitted == _assess_cognitive(WithoutKeys(features, K))
    IN  /\ omitted.category_score > results.category_score
        /\ omitted.ad_risk < results.ad_risk

\* C19: a cognitive sub-test that is missing is left out of the scoring, not
\* counted as zero: when the other sub-tests earn points, the category_score
\* and ad_risk with the n-back features absent are strictly better than with
\* nback_accuracy present at a value that earns no point; likewise for the
\* Stroop and the word-recall sub-tests.
C19_MissingSubtestOmitted ==
    (pc = "assessed" /\ category = "cognitive" /\ ~Raised(results)) =>
        /\ (/\ Has(features, "nback_accuracy")
            /\ Earned(NbackPoints(features)) = 0
            /\ Earned(StroopPoints(features)) + Earned(RecallPoints(features)) > 0)
              => StrictlyBetterWithout(NbackKeys)
        /\ (/\ Has(features, "stroop_accuracy")
            /\ Earned(StroopPoints(features)) = 0
            /\ Earned(NbackPoints(features)) + Earned(RecallPoints(features)) > 0)
              => StrictlyBetterWithout(StroopKeys)
        /\ (/\ RecallKeys \cap DOMAIN features # {}
            /\ Earned(RecallPoints(features)) = 0
            /\ Earned(StroopPoints(features)) + Earned(NbackPoints(features)) > 0)
              => StrictlyBetterWithout(RecallKeys)

\* the ad_risk the staging ladder gives a MoCA-equivalent score
StagedRisk(moca) == ClampRisk(CognitiveStaging(moca)[2])

\* the MoCA-equivalent score of the assessed feature set
MocaOf(F) == MocaEquivalent(SumOver(DomainScores(F), DomainNames), TotalPossible)

\* MoCA-equivalent scores 0, 0.1, ..., 30
MocaGrid == {Q(k, 10) : k \in 0..300}

BandCutoffs == {MOCA_NORMAL, MOCA_MCI_CUTOFF, MOCA_DEMENTIA_CUTOFF, 10}

\* the linear formula of the band just below a cutoff, carried up to the cutoff
LowerBandAt(cutoff) ==
    QSub(QMul(QInt(2), StagedRisk(QSub(QInt(cutoff), Q(1, 2)))),
         StagedRisk(QSub(QInt(cutoff), QInt(1))))

\* C20: the cognitive ad_risk never rises as the MoCA-equivalent score rises,
\* and at each of the cutoffs 26, 22, 17 and 10 the formulas of the two
\* adjacent bands give the same ad_risk.
C20_RiskBandingMonotoneContinuous ==
    (pc = "assessed" /\ category = "cognitive" /\ ~Raised(results)) =>
        LET moca == MocaOf(features)
        IN  /\ \A other \in MocaGrid :
                  /\ QGe(other, moca) => QGe(StagedRisk(moca), StagedRisk(other))
                  /\ QGe(moca, other) => QGe(StagedRisk(other), StagedRisk(moca))
            /\ \A cutoff \in BandCutoffs :
                  QEq(LowerBandAt(cutoff), StagedRisk(QInt(cutoff)))

\* the Hoehn & Yahr stage the staging rules give a set of UPDRS sub-scores
ExpectedHoehnYahr(total, postural) ==
    IF postural >= 3 THEN ParkinsonStage.STAGE_4
    ELSE IF postural = 2 THEN ParkinsonStage.STAGE_3
    ELSE IF total = 0 THEN ParkinsonStage.STAGE_0
    ELSE IF total <= 4 THEN ParkinsonStage.STAGE_1
    ELSE ParkinsonStage.STAGE_2

\* C21: the Hoehn & Yahr stage is 0 when the UPDRS total is 0, 1 when the
\* total is at most 4 and 2 when it is at most 8 with a postural sub-score of
\* at most 1, 3 when the postural sub-score is 2 and 4 when it is 3 or more,
\* whatever the total.
C21_HoehnYahrStaging ==
    (pc = "assessed" /\ category \in {"gait", "motor"} /\ ~Raised(results)) =>
        LET total == SumScores(results.updrs_subscores)
            postural == Get(results.updrs_subscores, "postural_stability", 0)
        IN  (total <= 8 \/ postural >= 2) =>
                results.pd_stage = ExpectedHoehnYahr(total, postural)

TooFastConcern(count) ==
    <<"responses too fast (<150ms) - suggests anticipation/random", count>>

TooSlowConcern(count) ==
    <<"responses excessively slow (>3s) - suggests deliberate slowing", count>>

VariabilityConcern == <<"Response time variability suggests inconsistent effort">>

\* C22: reaction_times is scanned only when it has more than 5 samples and
\* otherwise both counters stay 0; the too-fast concern is appended when the
\* too-fast count exceeds 20% of the samples and the too-slow concern when
\* the too-slow count exceeds 30%; and every sequence of at least 10 samples
\* gets the variability concern exactly when its coefficient of variation
\* exceeds 0.5.
C22_ResponseTimeGating ==
    (pc = "assessed" /\ Has(features, "reaction_times")) =>
        LET rts == features["reaction_times"]
            n == Len(rts)
            fast == CountIf(rts, RT_MIN_VALID)
            slow == n - CountIf(rts, RT_MAX_VALID + 1)
            concerns == Range(indicators.validity_concerns)
        IN  /\ n <= 5 => /\ indicators.too_fast_responses = 0
                         /\ indicators.too_slow_responses = 0
            /\ n > 5 => /\ indicators.too_fast_responses = fast
                        /\ indicators.too_slow_responses = slow
                        /\ TooFastConcern(fast) \in concerns <=> 5 * fast > n
                        /\ TooSlowConcern(slow) \in concerns <=> 10 * slow > 3 * n
            /\ n >= 10 => (VariabilityConcern \in concerns <=> CvExceeds(rts))

\* C23: WEIGHTS_AD and WEIGHTS_PD are each defined on exactly the five
\* categories and each sums to 1.00; cognitive has the strictly largest
\* weight for disease A, and motor and gait the two largest for disease B;
\* so the weights of the categories collected never sum to more than 1.00.
C23_WeightTables ==
    /\ DOMAIN WEIGHTS_AD = Categories
    /\ DOMAIN WEIGHTS_PD = Categories
    /\ FullWeight(<<>>, WEIGHTS_AD) = 100
    /\ FullWeight(<<>>, WEIGHTS_PD) = 100
    /\ \A c \in Categories \ {"cognitive"} : WEIGHTS_AD[c] < WEIGHTS_AD["cognitive"]
    /\ \A c \in Categories \ {"motor", "gait"} :
          /\ WEIGHTS_PD[c] < WEIGHTS_PD["motor"]
          /\ WEIGHTS_PD[c] < WEIGHTS_PD["gait"]
    /\ Range(Keys(category_results)) \subseteq Categories =>
          /\ TotalWeight(category_results, WEIGHTS_AD) <= 100
          /\ TotalWeight(category_results, WEIGHTS_PD) <= 100

\* a composite for which both tables were consulted on their leading categories
C23_Witness ==
    /\ composite # None
    /\ {"cognitive", "motor"} \subseteq Range(Keys(category_results))
    /\ TotalWeight(category_results, WEIGHTS_AD) >= 50
    /\ TotalWeight(category_results, WEIGHTS_PD) >= 50

\* a step in which calculate_risk_scores is called and returns
RiskScoresStep == pc = "idle" /\ pc' = "assessed"

\* a step in which the caller itself stores the result it was handed
CallerStoresStep == pc = "assessed" /\ pc' = "idle"

C25_ValidCarriesNoConcerns ==
    /\ (pc = "assessed" /\ indicators.validity_status = VALID) =>
          indicators.validity_concerns = <<>>
    /\ (composite # None /\ composite.validity_summary.all_valid) =>
          \A i \in 1..Len(category_results) :
              category_results[i].results.validity.concerns = <<>>

\* every feature the assessor of the category reads for a score is present
\* and lies in the best tier of its ladder
BestTier(cat, F) ==
    CASE cat = "cognitive" ->
           /\ Get(F, "stroop_accuracy", 0) >= 95
           /\ Has(F, "stroop_interference")
           /\ F["stroop_interference"] <= STROOP_INTERFERENCE_NORMAL
           /\ StroopSpeedPoints(Get(F, "stroop_mean_rt", 0)) = 2
           /\ Get(F, "nback_accuracy", 0) >= NBACK_ACCURACY_NORMAL
           /\ Get(F, "nback_dprime", 0) >= NBACK_DPRIME_NORMAL
           /\ Get(F, "recall_accuracy", 0) >= RECALL_IMMEDIATE_NORMAL
           /\ Get(F, "delayed_recall_accuracy", 0) >= RECALL_DELAYED_NORMAL
           /\ Get(F, "recognition_accuracy", 0) >= RECALL_RECOGNITION_NORMAL
      [] cat = "speech" ->
           /\ Get(F, "story_recall_accuracy", 0) >= 80
           /\ Get(F, "vowel_duration", 0) >= VOWEL_DURATION_NORMAL
           /\ SPEECH_RATE_NORMAL_MIN <= Get(F, "speech_rate", 0)
           /\ Get(F, "speech_rate", 0) <= SPEECH_RATE_NORMAL_MAX
           /\ Get(F, "fluency_word_count", 0) >= FLUENCY_NORMAL
      [] cat = "motor" ->
           /\ Get(F, "tapping_rate", 0) >= TAPPING_NORMAL_MIN
           /\ Get(F, "tapping_regularity", 0) >= 90
           /\ Has(F, "tapping_fatigue") /\ F["tapping_fatigue"] <= 10
           /\ Truthy(F, "spiral_duration")
           /\ Has(F, "spiral_tremor") /\ F["spiral_tremor"] <= 10
      [] cat = "gait" ->
           /\ Truthy(F, "steps")
           /\ Get(F, "gait_speed", 0) >= GAIT_SPEED_NORMAL
           /\ Get(F, "step_regularity", 0) >= 90
           /\ Truthy(F, "balance_duration")
           /\ Has(F, "balance_sway") /\ F["balance_sway"] <= SWAY_NORMAL
           /\ Get(F, "balance_stability", 0) >= 90
      [] cat = "facial" ->
           /\ BLINK_NORMAL_MIN <= Get(F, "blink_rate", 0)
           /\ Get(F, "blink_rate", 0) <= BLINK_NORMAL_MAX
           /\ Truthy(F, "smile_count")
           /\ Get(F, "smile_intensity", 0) >= 80
      [] OTHER -> FALSE

\* C26: in each of the five categories a FeatureSet whose every scored
\* feature is present and in its best tier gets category_score 100 and
\* ad_risk = pd_risk = 0, and for cognitive also the stage Normal.
C26_BestTierReachesTop ==
    (pc = "assessed" /\ ~Raised(results) /\ BestTier(category, features)) =>
        /\ results.category_score = 10000
        /\ results.ad_risk = 0
        /\ results.pd_risk = 0
        /\ category = "cognitive" => results.stage = CognitiveStage.NORMAL

\* the note each assessor emits when none of its thresholds is crossed
DefaultNote ==
    [cognitive |-> <<"Cognitive performance within normal limits">>,
     speech |-> <<"Speech parameters within normal limits">>,
     motor |-> <<"Motor function within normal limits">>,
     gait |-> <<"Gait and balance within normal limits">>,
     facial |-> <<"Facial expression within normal range">>]

\* the lowest stage of each category
NormalStage ==
    [cognitive |-> CognitiveStage.NORMAL,
     speech |-> "Normal",
     motor |-> ParkinsonStage.STAGE_0,
     gait |-> ParkinsonStage.STAGE_0,
     facial |-> "Normal"]

\* C27: when the assessor emitted no threshold note, so that its
\* clinical_notes is only the default text, the severity is "low" and the
\* stage is the lowest stage of the category.
C27_DefaultNoteMeansNormal ==
    (pc = "assessed" /\ category \in Categories /\ ~Raised(results)
       /\ AssessorResult(category, features).clinical_notes = <<DefaultNote[category]>>) =>
        /\ results.severity = "low"
        /\ results.stage = NormalStage[category]

\* the same category results inserted in every other order
Reorderings(cr) ==
    {[i \in 1..Len(cr) |-> cr[p[i]]] : p \in Permutations(1..Len(cr))} \ {cr}

\* the fields of a composite that do not name the insertion order
FusionView(c) ==
    <<c.composite_ad_risk, c.composite_pd_risk, c.overall_risk, c.primary_concern,
      c.validity_summary.all_valid, c.recommendation>>

\* C28: calculate_composite returns the same composite_ad_risk,
\* composite_pd_risk, overall_risk, primary_concern, all_valid flag and
\* recommendation whatever the order in which the category results were
\* inserted; stated for three results or more, since a sum of two terms is
\* the same in both orders.
C28_FusionOrderIndependent ==
    (composite # None /\ Len(category_results) >= 3) =>
        \A other \in Reorderings(category_results) :
            \A c \in CompositeOutcomes(other) : FusionView(c) = FusionView(composite)

\* C29: calculate_composite on an empty mapping returns, without error,
\* composite_ad_risk = composite_pd_risk = overall_risk = 0, primary_concern
\* "Mixed/Undetermined", no category assessed, all_valid true with no
\* concerns, and the recommendation of the lowest band.
C29_FusionOfNoResults ==
    (composite # None /\ category_results = <<>>) =>
        /\ ~Raised(composite)
        /\ composite.composite_ad_risk = 0
        /\ composite.composite_pd_risk = 0
        /\ composite.overall_risk = 0
        /\ composite.primary_concern = "Mixed/Undetermined"
        /\ composite.categories_assessed = <<>>
        /\ composite.validity_summary.all_valid
        /\ composite.validity_summary.concerns = <<>>
        /\ composite.recommendation
             = "Results within normal limits. Continue regular health monitoring."

\* the caller fused before any category was completed, requests still waiting
C29_Witness ==
    /\ composite # None
    /\ category_results = <<>>
    /\ pc = "idle"
    /\ pending # <<>>
    /\ composite.categories_assessed = <<>>
    /\ composite.overall_risk = 0

----------------------------------------------------------------------------
(* Properties of the test-session lifecycle *)

\* the call of this step was made by the owner of the test
OwnerCalls(op) == response'.op = op /\ response'.user_id = test.user_id

\* the step left the status, the score and the stored item results as they were
TestUntouched == test' = test /\ test_results' = test_results

\* C30: on a test owned by the caller, start_test succeeds only from PENDING
\* and sets IN_PROGRESS, submit_test_item and complete_test succeed only
\* from IN_PROGRESS and complete_test sets COMPLETED; a call in any other
\* status is rejected with HTTP 400 and leaves the status, the score and the
\* item results unchanged. So the status only moves PENDING -> IN_PROGRESS ->
\* COMPLETED, and an item result is added only while the test is in progress.
C30_TestLifecycle ==
    [][/\ OwnerCalls("start_test") =>
            IF test.status = TestStatusEnum.PENDING
            THEN /\ response'.status_code = 200
                 /\ test'.status = TestStatusEnum.IN_PROGRESS
                 /\ test_results' = test_results
            ELSE response'.status_code = 400 /\ TestUntouched
       /\ OwnerCalls("submit_test_item") =>
            IF test.status = TestStatusEnum.IN_PROGRESS
            THEN /\ response'.status_code = 200
                 /\ test' = test
                 /\ Len(test_results') = Len(test_results) + 1
                 /\ SubSeq(test_results', 1, Len(test_results)) = test_results
            ELSE response'.status_code = 400 /\ TestUntouched
       /\ OwnerCalls("complete_test") =>
            IF test.status = TestStatusEnum.IN_PROGRESS
            THEN /\ response'.status_code = 200
                 /\ test'.status = TestStatusEnum.COMPLETED
                 /\ test'.score # Null
                 /\ test_results' = test_results
            ELSE response'.status_code = 400 /\ TestUntouched
       /\ test'.status # test.status =>
            \/ /\ test.status = TestStatusEnum.PENDING
               /\ test'.status = TestStatusEnum.IN_PROGRESS
            \/ /\ test.status = TestStatusEnum.IN_PROGRESS
               /\ test'.status = TestStatusEnum.COMPLETED
       /\ test_results' # test_results =>
            /\ test.status = TestStatusEnum.IN_PROGRESS
            /\ test'.status = TestStatusEnum.IN_PROGRESS
       /\ test.status = TestStatusEnum.COMPLETED => test'.score = test.score]_vars

\* a completed test with stored items whose owner has just had a further
\* start refused
C30_Witness ==
    /\ test.status = TestStatusEnum.COMPLETED
    /\ test.score # Null
    /\ Len(test_results) >= 2
    /\ response = [op |-> "start_test", user_id |-> test.user_id, status_code |-> 400]

=============================================================================
